---- MODULE Spec2Model ----
(***************************************************************************)
(* PodCleaner's message-driven pipeline: the HTTP front-end (WebServer),   *)
(* the four workers (PodcastDownloader, Transcriber, AdDetector,           *)
(* AudioProcessor) and the message broker between them.                    *)
(*                                                                         *)
(* Messages travel through `bus` (published, not yet delivered).  Each     *)
(* handler is one action; the three handlers that mark a key as being in   *)
(* process and then block in a heavy operation are two actions each: the   *)
(* locked check-and-mark at entry (XHandle) and the heavy operation with   *)
(* the bookkeeping and the reply that follow it (XFinish).                 *)
(* time.time() stamps carry no behaviour and are left out of the records.  *)
(***************************************************************************)
EXTENDS Integers, Sequences, FiniteSets, TLC

\* ------------------------------------------------------------------ bounds
\* How many events the environment produces: GET /process calls by clients and
\* redeliveries of an already delivered message by the transport.
MaxEvents == 2
\* How many times a component is stopped or dies.
MaxStops == 1
\* How many segments a transcript has at most.
MaxSegments == 3
\* How many ad intervals the AudioProcessor merges at most.
MaxIntervals == 3
\* The longest sequence of calls made on the in-process broker.
MaxCalls == 5
\* How many handlers are subscribed to one topic of the MQTT broker at most.
MaxHandlers == 2
\* How many times the MQTT connection is lost at most.
MaxReconnects == 2

\* The URLs the clients submit.
URLs == {"https://ex.com/a.mp3", "https://ex.com/b.mp3"}
\* The feeds the clients ask for.
Feeds == {"https://ex.com/feed.xml", "https://ex.com/news.xml"}

\* ------------------------------------------------------------------ values
\* Python's None, and the truth value of an Optional[str].
None == "None"
Truthy(v) == v # None /\ v # ""
\* dict.get(key)
Get(data, key) == IF key \in DOMAIN data THEN data[key] ELSE None

Components == {"broker", "web", "downloader", "transcriber", "ad_detector", "audio_processor"}
Workers == {"downloader", "transcriber", "ad_detector", "audio_processor"}

\* class Topics
DOWNLOAD_REQUEST == "podcast.download.request"
DOWNLOAD_COMPLETE == "podcast.download.complete"
DOWNLOAD_FAILED == "podcast.download.failed"
TRANSCRIBE_REQUEST == "podcast.transcribe.request"
TRANSCRIBE_COMPLETE == "podcast.transcribe.complete"
TRANSCRIBE_FAILED == "podcast.transcribe.failed"
AD_DETECTION_REQUEST == "podcast.ad_detection.request"
AD_DETECTION_COMPLETE == "podcast.ad_detection.complete"
AD_DETECTION_FAILED == "podcast.ad_detection.failed"
AUDIO_PROCESSING_REQUEST == "podcast.audio_processing.request"
AUDIO_PROCESSING_COMPLETE == "podcast.audio_processing.complete"
AUDIO_PROCESSING_FAILED == "podcast.audio_processing.failed"
RSS_DOWNLOAD_REQUEST == "podcast.rss.download.request"
RSS_DOWNLOAD_COMPLETE == "podcast.rss.download.complete"
RSS_DOWNLOAD_FAILED == "podcast.rss.download.failed"

RequestTopics == {DOWNLOAD_REQUEST, TRANSCRIBE_REQUEST, AD_DETECTION_REQUEST, AUDIO_PROCESSING_REQUEST}
CompleteTopics == {DOWNLOAD_COMPLETE, TRANSCRIBE_COMPLETE, AD_DETECTION_COMPLETE, AUDIO_PROCESSING_COMPLETE}
FailedTopics == {DOWNLOAD_FAILED, TRANSCRIBE_FAILED, AD_DETECTION_FAILED, AUDIO_PROCESSING_FAILED}

\* The pseudo-topic of the HTTP call that causes the first message of a flow.
HTTP_PROCESS == "GET /process"

\* hashlib.md5(url.encode()).hexdigest(): distinct URLs get distinct digests.
Md5(url) ==
  CASE url = "https://ex.com/a.mp3" -> "0a1f"
    [] url = "https://ex.com/b.mp3" -> "9c3e"
    [] OTHER -> "d41d"

\* PodcastDownloader._generate_file_path
GenerateFilePath(url) == "podcasts/" \o Md5(url)

\* f"{file_path}.transcript.json"
TranscriptPath(file_path) == file_path \o ".transcript.json"

\* os.path.splitext(file_path) and f"{base}_clean{ext}": the keys of
\* _generate_file_path carry no extension, so ext is empty.
OutputPath(file_path) == file_path \o "_clean"

\* str(uuid.uuid4()): the n-th identifier of a kind.
Uuid4(kind, n) == kind \o "-" \o ToString(n)

\* The download URL _handle_audio_processing_complete builds.
DownloadUrl(file_id) == "http://localhost:8080/download/" \o file_id

\* ------------------------------------------------------------------ state
VARIABLES
  running,            \* component -> its `running` flag
  stops,              \* how many stop() calls happened
  bus,                \* messages published and not yet delivered
  published,          \* history: every message the broker accepted, with its publisher and cause
  redelivered,        \* how many redeliveries happened
  responses,          \* history: the HTTP responses to GET /process, in order
  pending_requests,   \* WebServer.pending_requests
  file_mappings,      \* WebServer.file_mappings
  url_to_file,        \* WebServer.url_to_file
  dl_processed_files, \* PodcastDownloader.processed_files
  dl_files_in_process,\* PodcastDownloader.files_in_process
  dl_disk,            \* debug_output/downloader_processed_files.json
  dl_handling,        \* url -> the request whose handler is inside download()
  tr_processed_files, \* Transcriber.processed_files
  tr_files_in_process,\* Transcriber.files_in_process
  tr_disk,            \* debug_output/transcriber_processed_files.json
  tr_handling,        \* file_path -> the request whose handler is inside transcribe()
  ad_processed_files, \* AdDetector.processed_files
  ad_files_in_process,\* AdDetector.files_in_process
  ad_disk,            \* debug_output/processed_files.json
  ad_handling,        \* file_path -> the request whose handler is inside detect_ads()
  rss_feeds_processed,\* PodcastDownloader.rss_feeds_processed
  rss_disk,           \* debug_output/downloader_processed_rss.json
  file_lock,          \* PodcastDownloader.file_lock: the requests whose handlers hold it (none or one)
  cached_podcast_info,\* WebServer.cached_podcast_info
  rss_responses,      \* history: the HTTP responses to GET /rss, in order
  transcript_files,   \* transcript path -> the JSON document in that file
  call,               \* the last call of a library function: its name, arguments and result
  subscribers,        \* InMemoryMessageBroker.subscribers
  im_running,         \* InMemoryMessageBroker.running
  callbacks,          \* MQTTMessageBroker.callbacks
  mqtt_running,       \* MQTTMessageBroker.running
  loop_running,       \* whether the MQTT client's network loop thread runs (loop_start .. loop_stop)
  connection,         \* the MQTT client's connection: closed, connecting (CONNECT sent), connected or refused
  subscribed,         \* the topics the MQTT client has subscribed on its present connection
  reconnects,         \* history: how many times _on_disconnect called client.reconnect()
  invocations,        \* history: the handler invocations of a broker's last delivery, in order
  im_calls,           \* history: the calls made on the InMemoryMessageBroker, in order
  store,              \* path -> kind of the file or blob that exists there
  heavy               \* history: <<operation, key>> -> how often it ran

web_vars == <<pending_requests, file_mappings, url_to_file, responses>>
dl_vars == <<dl_processed_files, dl_files_in_process, dl_disk, dl_handling>>
tr_vars == <<tr_processed_files, tr_files_in_process, tr_disk, tr_handling>>
ad_vars == <<ad_processed_files, ad_files_in_process, ad_disk, ad_handling>>
rss_vars == <<rss_feeds_processed, rss_disk, file_lock, cached_podcast_info, rss_responses>>
broker_vars == <<subscribers, im_running, callbacks, mqtt_running, loop_running, connection, subscribed, reconnects,
                 invocations, im_calls>>
unit_vars == <<transcript_files, call, broker_vars>>
vars == <<running, stops, bus, published, redelivered, web_vars, dl_vars, tr_vars, ad_vars, rss_vars, unit_vars, store, heavy>>

EmptyMap == [x \in {} |-> None]

\* The workers open storage keys as local paths, so blobs, transcripts and
\* rendered files share one namespace.
Exists(path) == path \in DOMAIN store
Put(path, kind) == [p \in DOMAIN store \cup {path} |-> IF p = path THEN kind ELSE store[p]]

Count(op, key) == IF <<op, key>> \in DOMAIN heavy THEN heavy[<<op, key>>] ELSE 0
Ran(op, key) == [k \in DOMAIN heavy \cup {<<op, key>>} |->
                   IF k = <<op, key>> THEN Count(op, key) + 1 ELSE heavy[k]]

\* json.dump(list(processed_files), f): the file holds the elements as a list,
\* in the order the set iterates.
RECURSIVE ListOf(_)
ListOf(S) == IF S = {} THEN <<>> ELSE LET x == CHOOSE y \in S : TRUE IN <<x>> \o ListOf(S \ {x})
SaveProcessedFiles(processed_files) == ListOf(processed_files)

\* A fresh instance that starts from an empty set and reads no file.
LoadNothing(files_list) == {}

\* set(json.load(f)); a file that was never written leaves the set empty.
LoadProcessedFiles(files_list) == {files_list[i] : i \in 1..Len(files_list)}

Without(f, k) == [x \in DOMAIN f \ {k} |-> f[x]]
With(f, k, v) == [x \in DOMAIN f \cup {k} |-> IF x = k THEN v ELSE f[x]]

\* ------------------------------------------------------------------ broker
\* Message.__init__: message_id is a fresh uuid4, here the count of the
\* messages already accepted on that topic for that correlation id.
Message(topic, data, correlation_id) ==
  [topic |-> topic,
   data |-> data,
   message_id |-> <<topic, correlation_id,
                    Cardinality({p \in published : /\ p.msg.topic = topic
                                                   /\ p.msg.correlation_id = correlation_id}) + 1>>,
   correlation_id |-> correlation_id]

\* publish(): a no-op with a warning unless the broker is running.
Accepted(msgs) == IF running["broker"] THEN msgs ELSE {}

\* A handler run by `by` for message m (taken off the bus) that publishes `msgs`.
Publish(m, by, msgs) ==
  /\ bus' = (bus \ {m}) \cup Accepted(msgs)
  /\ published' = published \cup {[msg |-> r, by |-> by, cause |-> m] : r \in Accepted(msgs)}

\* A handler that took m off the bus earlier, or an HTTP call m, publishes `msgs`.
Reply(m, by, msgs) ==
  /\ bus' = bus \cup Accepted(msgs)
  /\ published' = published \cup {[msg |-> r, by |-> by, cause |-> m] : r \in Accepted(msgs)}

\* The broker hands m to the handler subscribed to its topic.
Delivered(m, topic) == m \in bus /\ m.topic = topic /\ running["broker"]

Init ==
  /\ running = [c \in Components |-> FALSE]
  /\ stops = 0
  /\ bus = {}
  /\ published = {}
  /\ redelivered = 0
  /\ responses = <<>>
  /\ pending_requests = EmptyMap
  /\ file_mappings = EmptyMap
  /\ url_to_file = EmptyMap
  /\ dl_processed_files = {} /\ dl_files_in_process = {} /\ dl_disk = <<>> /\ dl_handling = EmptyMap
  /\ tr_processed_files = {} /\ tr_files_in_process = {} /\ tr_disk = <<>> /\ tr_handling = EmptyMap
  /\ ad_processed_files = {} /\ ad_files_in_process = {} /\ ad_disk = <<>> /\ ad_handling = EmptyMap
  /\ rss_feeds_processed = {} /\ rss_disk = <<>> /\ file_lock = {}
  /\ cached_podcast_info = EmptyMap
  /\ rss_responses = <<>>
  /\ transcript_files = EmptyMap
  /\ call = [fn |-> None]
  /\ subscribers = EmptyMap /\ im_running = FALSE
  /\ callbacks = EmptyMap /\ mqtt_running = FALSE /\ loop_running = FALSE
  /\ connection = "closed" /\ subscribed = {} /\ reconnects = 0
  /\ invocations = <<>>
  /\ im_calls = <<>>
  /\ store = EmptyMap
  /\ heavy = EmptyMap

\* start() of a broker, the web server or a worker.
Start(c) ==
  /\ ~running[c]
  /\ running' = [running EXCEPT ![c] = TRUE]
  /\ UNCHANGED <<stops, rss_vars, unit_vars, bus, published, redelivered, web_vars, dl_vars, tr_vars, ad_vars, store, heavy>>

\* stop() of a worker: clears the flag and saves the processed set.
Stop(c) ==
  /\ c \in Workers
  /\ running[c]
  /\ stops < MaxStops
  /\ stops' = stops + 1
  /\ running' = [running EXCEPT ![c] = FALSE]
  /\ dl_disk' = IF c = "downloader" THEN SaveProcessedFiles(dl_processed_files) ELSE dl_disk
  /\ tr_disk' = IF c = "transcriber" THEN SaveProcessedFiles(tr_processed_files) ELSE tr_disk
  /\ ad_disk' = IF c = "ad_detector" THEN SaveProcessedFiles(ad_processed_files) ELSE ad_disk
  /\ rss_disk' = IF c = "downloader" THEN SaveProcessedFiles(rss_feeds_processed) ELSE rss_disk
  /\ UNCHANGED <<bus, published, redelivered, web_vars, store, heavy>>
  /\ UNCHANGED <<rss_feeds_processed, file_lock, cached_podcast_info, rss_responses, unit_vars>>
  /\ UNCHANGED <<dl_processed_files, dl_files_in_process, dl_handling>>
  /\ UNCHANGED <<tr_processed_files, tr_files_in_process, tr_handling>>
  /\ UNCHANGED <<ad_processed_files, ad_files_in_process, ad_handling>>

\* The process of worker c dies and a fresh instance is constructed over the
\* same debug directory and started: __init__ leaves files_in_process empty and
\* loads processed_files from its file; the handlers that were running are gone.
Crash(c) ==
  /\ c \in {"downloader", "transcriber", "ad_detector"}
  /\ running[c]
  /\ stops < MaxStops
  /\ stops' = stops + 1
  /\ IF c = "downloader"
     THEN /\ dl_processed_files' = LoadProcessedFiles(dl_disk)
          /\ dl_files_in_process' = {} /\ dl_handling' = EmptyMap /\ UNCHANGED dl_disk
          /\ rss_feeds_processed' = LoadProcessedFiles(rss_disk) /\ file_lock' = {}
     ELSE UNCHANGED <<dl_vars, rss_feeds_processed, file_lock>>
  /\ IF c = "transcriber"
     THEN /\ tr_processed_files' = LoadProcessedFiles(tr_disk)
          /\ tr_files_in_process' = {} /\ tr_handling' = EmptyMap /\ UNCHANGED tr_disk
     ELSE UNCHANGED tr_vars
  /\ IF c = "ad_detector"
     THEN /\ ad_processed_files' = LoadProcessedFiles(ad_disk)
          /\ ad_files_in_process' = {} /\ ad_handling' = EmptyMap /\ UNCHANGED ad_disk
     ELSE UNCHANGED ad_vars
  /\ UNCHANGED <<running, bus, published, redelivered, web_vars, store, heavy>>
  /\ UNCHANGED <<rss_disk, cached_podcast_info, rss_responses, unit_vars>>

\* The Downloader's process dies inside download(url), after the upload of the
\* blob and before the add to processed_files, and is restarted as in Crash.
CrashAfterUpload(url) ==
  /\ running["downloader"]
  /\ url \in DOMAIN dl_handling
  /\ ~Exists(GenerateFilePath(url))
  /\ stops < MaxStops
  /\ stops' = stops + 1
  /\ heavy' = Ran("http_get", url)
  /\ store' = Put(GenerateFilePath(url), "audio")
  /\ dl_processed_files' = LoadProcessedFiles(dl_disk)
  /\ dl_files_in_process' = {} /\ dl_handling' = EmptyMap /\ UNCHANGED dl_disk
  /\ rss_feeds_processed' = LoadProcessedFiles(rss_disk) /\ file_lock' = {}
  /\ UNCHANGED <<running, bus, published, redelivered, web_vars, tr_vars, ad_vars>>
  /\ UNCHANGED <<rss_disk, cached_podcast_info, rss_responses, unit_vars>>

\* The front-end's process dies and a fresh WebServer is constructed and
\* started: its request table, its two file maps and its feed cache, kept in
\* memory only, start empty.
WebRestart ==
  /\ running["web"]
  /\ stops < MaxStops
  /\ stops' = stops + 1
  /\ pending_requests' = EmptyMap
  /\ file_mappings' = EmptyMap
  /\ url_to_file' = EmptyMap
  /\ cached_podcast_info' = EmptyMap
  /\ UNCHANGED <<running, bus, published, redelivered, responses, dl_vars, tr_vars, ad_vars, store, heavy>>
  /\ UNCHANGED <<rss_feeds_processed, rss_disk, file_lock, rss_responses, unit_vars>>

\* The transport delivers a message it has delivered before (no duplicate
\* suppression: every delivery runs the subscribed callbacks again).
Redeliver(m) ==
  /\ running["broker"]
  /\ Len(responses) + redelivered < MaxEvents
  /\ m \in {p.msg : p \in published} \ bus
  /\ bus' = bus \cup {m}
  /\ redelivered' = redelivered + 1
  /\ UNCHANGED <<running, stops, rss_vars, unit_vars, published, web_vars, dl_vars, tr_vars, ad_vars, store, heavy>>

\* ------------------------------------------------------------------ WebServer
\* WebServer.add_pending_request
\* A submission that is not recorded.
NoPendingRequest(request_id, request_type, url) == pending_requests

AddPendingRequest(request_id, request_type, url) ==
  With(pending_requests, request_id,
       [request_id |-> request_id,
        type |-> request_type,
        url |-> url,
        status |-> "processing",
        steps |-> <<[name |-> "submitted", status |-> "completed"]>>])

\* update_request_status that appends the step and forgets the status.
UpdateRequestStatusStepOnly(request_id, status, step) ==
  IF request_id \notin DOMAIN pending_requests
  THEN pending_requests
  ELSE [pending_requests EXCEPT ![request_id].steps = Append(@, step)]

\* update_request_status over a steps list shared by all the requests.
UpdateRequestStatusShared(request_id, status, step) ==
  IF request_id \notin DOMAIN pending_requests
  THEN pending_requests
  ELSE [r \in DOMAIN pending_requests |->
          [pending_requests[r] EXCEPT !.status = IF r = request_id THEN status ELSE @,
                                      !.steps = Append(@, step)]]

\* WebServer.update_request_status: an unknown id is logged and left alone.
UpdateRequestStatus(request_id, status, step) ==
  IF request_id \notin DOMAIN pending_requests
  THEN pending_requests
  ELSE [pending_requests EXCEPT ![request_id].status = status,
                                ![request_id].steps = Append(@, step)]

\* The messages the front-end publishes.
DownloadRequest(request_id, url) ==
  Message(DOWNLOAD_REQUEST, [url |-> url], request_id)
\* A TRANSCRIBE_REQUEST built without the correlation id.
TranscribeRequestUncorrelated(request_id, file_path) ==
  Message(TRANSCRIBE_REQUEST, [file_path |-> file_path], None)
TranscribeRequest(request_id, file_path) ==
  Message(TRANSCRIBE_REQUEST, [file_path |-> file_path], request_id)
\* The render stage dispatched straight from the transcription.
AdDetectionRequestSkipping(request_id, file_path, transcript_path) ==
  Message(AUDIO_PROCESSING_REQUEST, [file_path |-> file_path, transcript_path |-> transcript_path], request_id)
AdDetectionRequest(request_id, file_path, transcript_path) ==
  Message(AD_DETECTION_REQUEST, [file_path |-> file_path, transcript_path |-> transcript_path], request_id)
AudioProcessingRequest(request_id, file_path, transcript_path) ==
  Message(AUDIO_PROCESSING_REQUEST, [file_path |-> file_path, transcript_path |-> transcript_path], request_id)

\* The HTTP call as the cause of the flow's first message.
HttpCall(request_id, url) ==
  [topic |-> HTTP_PROCESS, data |-> [url |-> url],
   message_id |-> <<HTTP_PROCESS, request_id, 1>>, correlation_id |-> request_id]

\* A lookup of the URL in the map that is keyed by file id.
GetProcessedFilePathByFileId(url) == Get(file_mappings, url)

\* WebServer.get_processed_file_path
GetProcessedFilePath(url) == Get(url_to_file, url)

\* RequestHandler._handle_process_request for GET /process?url=<url>
Process(url) ==
  /\ running["web"]
  /\ Len(responses) + redelivered < MaxEvents
  /\ LET request_id == Uuid4("request", Len(responses) + 1)
         file_path == GetProcessedFilePath(url)
     IN IF Truthy(file_path) /\ Exists(file_path)
        THEN /\ responses' = Append(responses, [url |-> url, code |-> 200, body |-> file_path])
             /\ UNCHANGED <<pending_requests, bus, published>>
        ELSE /\ pending_requests' = AddPendingRequest(request_id, "process", url)
             /\ Reply(HttpCall(request_id, url), "web", {DownloadRequest(request_id, url)})
             /\ responses' = Append(responses, [url |-> url, code |-> 202, body |-> request_id])
  /\ UNCHANGED <<running, stops, rss_vars, unit_vars, redelivered, file_mappings, url_to_file, dl_vars, tr_vars, ad_vars, store, heavy>>

\* What a front-end handler leaves alone besides the request table.
WebFrame == UNCHANGED <<running, stops, rss_vars, unit_vars, redelivered, responses, dl_vars, tr_vars, ad_vars, store, heavy>>

\* WebServer._handle_download_complete
HandleDownloadComplete(m) ==
  /\ Delivered(m, DOWNLOAD_COMPLETE)
  /\ LET request_id == m.correlation_id
         file_path == Get(m.data, "file_path")
     IN IF ~Truthy(request_id) \/ ~Truthy(file_path)
        THEN /\ Publish(m, "web", {})
             /\ UNCHANGED pending_requests
        ELSE /\ pending_requests' = UpdateRequestStatus(request_id, "processing",
                                      [name |-> "download", status |-> "completed"])
             /\ Publish(m, "web", {TranscribeRequest(request_id, file_path)})
  /\ UNCHANGED <<file_mappings, url_to_file>>
  /\ WebFrame

\* The body shared by the four _handle_<stage>_failed handlers.
HandleFailed(m, topic, name) ==
  /\ Delivered(m, topic)
  /\ LET request_id == m.correlation_id
         error == Get(m.data, "error")
     IN IF ~Truthy(request_id)
        THEN UNCHANGED pending_requests
        ELSE pending_requests' = UpdateRequestStatus(request_id, "failed",
                                   [name |-> name, status |-> "failed", error |-> error])
  /\ Publish(m, "web", {})
  /\ UNCHANGED <<file_mappings, url_to_file>>
  /\ WebFrame

\* WebServer._handle_download_failed
HandleDownloadFailed(m) == HandleFailed(m, DOWNLOAD_FAILED, "download")

\* WebServer._handle_transcription_complete
HandleTranscriptionComplete(m) ==
  /\ Delivered(m, TRANSCRIBE_COMPLETE)
  /\ LET request_id == m.correlation_id
         file_path == Get(m.data, "file_path")
         transcript_path == Get(m.data, "transcript_path")
     IN IF ~Truthy(request_id) \/ ~Truthy(file_path) \/ ~Truthy(transcript_path)
        THEN /\ Publish(m, "web", {})
             /\ UNCHANGED pending_requests
        ELSE /\ pending_requests' = UpdateRequestStatus(request_id, "processing",
                                      [name |-> "transcription", status |-> "completed"])
             /\ Publish(m, "web", {AdDetectionRequest(request_id, file_path, transcript_path)})
  /\ UNCHANGED <<file_mappings, url_to_file>>
  /\ WebFrame

\* WebServer._handle_transcription_failed
HandleTranscriptionFailed(m) == HandleFailed(m, TRANSCRIBE_FAILED, "transcription")

\* WebServer._handle_ad_detection_complete
HandleAdDetectionComplete(m) ==
  /\ Delivered(m, AD_DETECTION_COMPLETE)
  /\ LET request_id == m.correlation_id
         file_path == Get(m.data, "file_path")
         transcript_path == Get(m.data, "transcript_path")
     IN IF ~Truthy(request_id) \/ ~Truthy(file_path) \/ ~Truthy(transcript_path)
        THEN /\ Publish(m, "web", {})
             /\ UNCHANGED pending_requests
        ELSE /\ pending_requests' = UpdateRequestStatus(request_id, "processing",
                                      [name |-> "ad_detection", status |-> "completed"])
             /\ Publish(m, "web", {AudioProcessingRequest(request_id, file_path, transcript_path)})
  /\ UNCHANGED <<file_mappings, url_to_file>>
  /\ WebFrame

\* WebServer._handle_ad_detection_failed
HandleAdDetectionFailed(m) == HandleFailed(m, AD_DETECTION_FAILED, "ad_detection")

\* WebServer._handle_audio_processing_complete, with add_file_mapping
HandleAudioProcessingComplete(m) ==
  /\ Delivered(m, AUDIO_PROCESSING_COMPLETE)
  /\ LET request_id == m.correlation_id
         output_path == Get(m.data, "output_path")
         file_id == Uuid4("file", Cardinality(DOMAIN file_mappings) + 1)
         original_url == IF request_id \in DOMAIN pending_requests
                         THEN pending_requests[request_id].url ELSE None
     IN IF ~Truthy(request_id) \/ ~Truthy(output_path)
        THEN UNCHANGED <<pending_requests, file_mappings, url_to_file>>
        ELSE /\ file_mappings' = With(file_mappings, file_id, output_path)
             /\ url_to_file' = IF Truthy(original_url)
                               THEN With(url_to_file, original_url, output_path)
                               ELSE url_to_file
             /\ pending_requests' = UpdateRequestStatus(request_id, "completed",
                                      [name |-> "audio_processing", status |-> "completed",
                                       download_url |-> DownloadUrl(file_id)])
  /\ Publish(m, "web", {})
  /\ WebFrame

\* WebServer._handle_audio_processing_failed
HandleAudioProcessingFailed(m) == HandleFailed(m, AUDIO_PROCESSING_FAILED, "audio_processing")

\* ------------------------------------------------------------------ PodcastDownloader
\* A worker that takes itself for running whatever its flag says.
AlwaysRunning(c) == TRUE

\* self.running, which the request handlers of the workers test first
\* (`if not self.running: return`).
IsRunning(c) == running[c]

\* A test that never finds the key in files_in_process.
NeverInProcess(files_in_process, key) == FALSE

\* `if url in self.files_in_process`, `if file_path in self.files_in_process`:
\* the test of the three workers for a request whose key is being worked on.
InProcess(files_in_process, key) == key \in files_in_process

\* The short-circuit test with the blob check inverted.
AlreadyDownloadedBlobMissing(url) == url \in dl_processed_files /\ ~Exists(GenerateFilePath(url))

\* The short-circuit test of _handle_download_request.
AlreadyDownloaded(url) == url \in dl_processed_files /\ Exists(GenerateFilePath(url))

DownloadComplete(m, url, storage_key) ==
  Message(DOWNLOAD_COMPLETE, [url |-> url, file_path |-> storage_key], m.correlation_id)
DownloadCompleteAlready(m, url, storage_key) ==
  Message(DOWNLOAD_COMPLETE,
          [url |-> url, file_path |-> storage_key, already_processed |-> TRUE], m.correlation_id)
\* A DOWNLOAD_FAILED that carries the error and not the url it is about.
DownloadFailedErrorOnly(m, data) == Message(DOWNLOAD_FAILED, [error |-> data.error], m.correlation_id)
DownloadFailed(m, data) == Message(DOWNLOAD_FAILED, data, m.correlation_id)

\* PodcastDownloader._handle_download_request up to the call of download()
DownloaderHandle(m) ==
  /\ Delivered(m, DOWNLOAD_REQUEST)
  /\ LET url == Get(m.data, "url")
     IN IF ~IsRunning("downloader")
        THEN /\ Publish(m, "downloader", {})
             /\ UNCHANGED <<dl_files_in_process, dl_handling>>
        ELSE IF ~Truthy(url)
        THEN /\ Publish(m, "downloader", {DownloadFailed(m, [error |-> "No URL provided"])})
             /\ UNCHANGED <<dl_files_in_process, dl_handling>>
        ELSE IF file_lock # {}
        THEN FALSE   \* `with self.file_lock` blocks while another handler holds the lock
        ELSE IF AlreadyDownloaded(url)
        THEN /\ Publish(m, "downloader", {DownloadCompleteAlready(m, url, GenerateFilePath(url))})
             /\ UNCHANGED <<dl_files_in_process, dl_handling>>
        ELSE IF InProcess(dl_files_in_process, url)
        THEN /\ Publish(m, "downloader",
                        {DownloadFailed(m, [url |-> url, error |-> "File is already being downloaded"])})
             /\ UNCHANGED <<dl_files_in_process, dl_handling>>
        ELSE /\ dl_files_in_process' = dl_files_in_process \cup {url}
             /\ dl_handling' = With(dl_handling, url, m)
             /\ Publish(m, "downloader", {})
  /\ UNCHANGED <<running, stops, rss_vars, unit_vars, redelivered, web_vars, dl_processed_files, dl_disk, tr_vars, ad_vars, store, heavy>>

\* download(url) and the rest of _handle_download_request.  `ok` is whether
\* the HTTP GET and the upload succeed.
DownloaderFinish(url, ok) ==
  /\ url \in DOMAIN dl_handling
  /\ file_lock = {}
  /\ LET m == dl_handling[url]
         storage_key == GenerateFilePath(url)
     IN IF Exists(storage_key)
        THEN \* download() returns the key of the blob that is already there
             /\ UNCHANGED <<store, heavy, dl_processed_files, dl_disk, rss_disk>>
             /\ Reply(m, "downloader", {DownloadComplete(m, url, storage_key)})
        ELSE IF ok
        THEN /\ heavy' = Ran("http_get", url)
             /\ store' = Put(storage_key, "audio")
             /\ dl_processed_files' = dl_processed_files \cup {url}
             /\ dl_disk' = SaveProcessedFiles(dl_processed_files')
             /\ rss_disk' = SaveProcessedFiles(rss_feeds_processed)
             /\ Reply(m, "downloader", {DownloadComplete(m, url, storage_key)})
        ELSE /\ heavy' = Ran("http_get", url)
             /\ UNCHANGED <<store, dl_processed_files, dl_disk, rss_disk>>
             /\ Reply(m, "downloader",
                      {DownloadFailed(m, [url |-> url,
                                            error |-> "Failed to download podcast: 404 Client Error"])})
  /\ dl_files_in_process' = dl_files_in_process \ {url}
  /\ dl_handling' = Without(dl_handling, url)
  /\ UNCHANGED <<running, stops, redelivered, web_vars, tr_vars, ad_vars>>
  /\ UNCHANGED <<rss_feeds_processed, file_lock, cached_podcast_info, rss_responses, unit_vars>>

\* ------------------------------------------------------------------ Transcriber
TranscribeComplete(m, file_path) ==
  Message(TRANSCRIBE_COMPLETE,
          [file_path |-> file_path, transcript_path |-> TranscriptPath(file_path)], m.correlation_id)
\* The short-circuit reply without its already_processed flag.
TranscribeCompleteUnflagged(m, file_path) ==
  Message(TRANSCRIBE_COMPLETE,
          [file_path |-> file_path, transcript_path |-> TranscriptPath(file_path)], m.correlation_id)
TranscribeCompleteAlready(m, file_path) ==
  Message(TRANSCRIBE_COMPLETE,
          [file_path |-> file_path, transcript_path |-> TranscriptPath(file_path),
           already_processed |-> TRUE], m.correlation_id)
TranscribeFailed(m, data) == Message(TRANSCRIBE_FAILED, data, m.correlation_id)

\* Transcriber._handle_transcription_request up to the call of transcribe()
TranscriberHandle(m) ==
  /\ Delivered(m, TRANSCRIBE_REQUEST)
  /\ LET file_path == Get(m.data, "file_path")
     IN IF ~IsRunning("transcriber")
        THEN /\ Publish(m, "transcriber", {})
             /\ UNCHANGED <<tr_files_in_process, tr_handling>>
        ELSE IF ~Truthy(file_path)
        THEN /\ Publish(m, "transcriber", {TranscribeFailed(m, [error |-> "No file path provided"])})
             /\ UNCHANGED <<tr_files_in_process, tr_handling>>
        ELSE IF file_path \in tr_processed_files
        THEN /\ Publish(m, "transcriber", {TranscribeCompleteAlready(m, file_path)})
             /\ UNCHANGED <<tr_files_in_process, tr_handling>>
        ELSE IF InProcess(tr_files_in_process, file_path)
        THEN /\ Publish(m, "transcriber",
                        {TranscribeFailed(m, [file_path |-> file_path,
                                              error |-> "File is already being processed"])})
             /\ UNCHANGED <<tr_files_in_process, tr_handling>>
        ELSE /\ tr_files_in_process' = tr_files_in_process \cup {file_path}
             /\ tr_handling' = With(tr_handling, file_path, m)
             /\ Publish(m, "transcriber", {})
  /\ UNCHANGED <<running, stops, rss_vars, unit_vars, redelivered, web_vars, dl_vars, tr_processed_files, tr_disk, ad_vars, store, heavy>>

\* transcribe(file_path) and the rest of _handle_transcription_request.
\* `ok` is whether the recognizer (and the write of its transcript) succeeds.
TranscriberFinish(file_path, ok) ==
  /\ file_path \in DOMAIN tr_handling
  /\ LET m == tr_handling[file_path]
         transcript_file == TranscriptPath(file_path)
         cached == Exists(transcript_file)
     IN IF cached \/ ok
        THEN /\ heavy' = IF cached THEN heavy ELSE Ran("recognize", file_path)
             /\ store' = IF cached THEN store ELSE Put(transcript_file, "transcript")
             /\ tr_processed_files' = tr_processed_files \cup {file_path}
             /\ tr_disk' = SaveProcessedFiles(tr_processed_files')
             /\ Reply(m, "transcriber", {TranscribeComplete(m, file_path)})
        ELSE /\ heavy' = Ran("recognize", file_path)
             /\ UNCHANGED <<store, tr_processed_files, tr_disk>>
             /\ Reply(m, "transcriber",
                      {TranscribeFailed(m, [file_path |-> file_path,
                                              error |-> "Failed to transcribe audio"])})
  /\ tr_files_in_process' = tr_files_in_process \ {file_path}
  /\ tr_handling' = Without(tr_handling, file_path)
  /\ UNCHANGED <<running, stops, rss_vars, unit_vars, redelivered, web_vars, dl_vars, ad_vars>>

\* ------------------------------------------------------------------ AdDetector
AdDetectionComplete(m, file_path, transcript_path) ==
  Message(AD_DETECTION_COMPLETE,
          [file_path |-> file_path, transcript_path |-> transcript_path], m.correlation_id)
\* The short-circuit reply without its already_processed flag.
AdDetectionCompleteUnflagged(m, file_path, transcript_path) ==
  Message(AD_DETECTION_COMPLETE,
          [file_path |-> file_path, transcript_path |-> transcript_path], m.correlation_id)
AdDetectionCompleteAlready(m, file_path, transcript_path) ==
  Message(AD_DETECTION_COMPLETE,
          [file_path |-> file_path, transcript_path |-> transcript_path,
           already_processed |-> TRUE], m.correlation_id)
\* An AD_DETECTION_FAILED built without the correlation id.
AdDetectionFailedUncorrelated(m, data) == Message(AD_DETECTION_FAILED, data, None)
AdDetectionFailed(m, data) == Message(AD_DETECTION_FAILED, data, m.correlation_id)

\* AdDetector._handle_ad_detection_request up to the load of the transcript.
\* For a file in files_in_process the handler reads Topics.AD_DETECTION_IN_PROGRESS,
\* which class Topics does not define: the AttributeError leaves the handler
\* (the lock is released) and the broker logs it; nothing is published.
AdDetectorHandle(m) ==
  /\ Delivered(m, AD_DETECTION_REQUEST)
  /\ LET file_path == Get(m.data, "file_path")
         transcript_path == Get(m.data, "transcript_path")
     IN IF ~IsRunning("ad_detector")
        THEN /\ Publish(m, "ad_detector", {})
             /\ UNCHANGED <<ad_files_in_process, ad_handling>>
        ELSE IF ~Truthy(file_path) \/ ~Truthy(transcript_path)
        THEN /\ Publish(m, "ad_detector",
                        {AdDetectionFailed(m, [error |-> "Missing file_path or transcript_path"])})
             /\ UNCHANGED <<ad_files_in_process, ad_handling>>
        ELSE IF file_path \in ad_processed_files
        THEN /\ Publish(m, "ad_detector", {AdDetectionCompleteAlready(m, file_path, transcript_path)})
             /\ UNCHANGED <<ad_files_in_process, ad_handling>>
        ELSE IF InProcess(ad_files_in_process, file_path)
        THEN /\ Publish(m, "ad_detector", {})
             /\ UNCHANGED <<ad_files_in_process, ad_handling>>
        ELSE /\ ad_files_in_process' = ad_files_in_process \cup {file_path}
             /\ ad_handling' = With(ad_handling, file_path, m)
             /\ Publish(m, "ad_detector", {})
  /\ UNCHANGED <<running, stops, rss_vars, unit_vars, redelivered, web_vars, dl_vars, tr_vars, ad_processed_files, ad_disk, store, heavy>>

\* What the try block of _handle_ad_detection_request can come to: the
\* transcript written back with or without ad-marked segments, or an error
\* raised while loading, classifying or writing.
AdOutcomes == {"ads", "no_ads", "error"}

\* The try block of _handle_ad_detection_request: load, detect_ads, write
\* back, mark processed, reply.
AdDetectorFinish(file_path, outcome) ==
  /\ file_path \in DOMAIN ad_handling
  /\ outcome \in AdOutcomes
  /\ LET m == ad_handling[file_path]
         transcript_path == Get(m.data, "transcript_path")
     IN IF ~Exists(transcript_path)
        THEN \* open(transcript_path) raises
             /\ UNCHANGED <<store, heavy, ad_processed_files, ad_disk>>
             /\ Reply(m, "ad_detector",
                      {AdDetectionFailed(m, [file_path |-> file_path,
                                               error |-> "No such file or directory"])})
        ELSE IF outcome = "error"
        THEN /\ heavy' = Ran("classify", file_path)
             /\ UNCHANGED <<store, ad_processed_files, ad_disk>>
             /\ Reply(m, "ad_detector",
                      {AdDetectionFailed(m, [file_path |-> file_path,
                                               error |-> "Input/output error"])})
        ELSE /\ heavy' = Ran("classify", file_path)
             /\ store' = Put(transcript_path, IF outcome = "ads" THEN "transcript_ads" ELSE "transcript")
             /\ ad_processed_files' = ad_processed_files \cup {file_path}
             /\ ad_disk' = SaveProcessedFiles(ad_processed_files')
             /\ Reply(m, "ad_detector", {AdDetectionComplete(m, file_path, transcript_path)})
  /\ ad_files_in_process' = ad_files_in_process \ {file_path}
  /\ ad_handling' = Without(ad_handling, file_path)
  /\ UNCHANGED <<running, stops, rss_vars, unit_vars, redelivered, web_vars, dl_vars, tr_vars>>

\* ------------------------------------------------------------------ AudioProcessor
AudioProcessingComplete(m, file_path, processed_file) ==
  Message(AUDIO_PROCESSING_COMPLETE,
          [input_path |-> file_path, output_path |-> processed_file], m.correlation_id)
AudioProcessingFailed(m, data) == Message(AUDIO_PROCESSING_FAILED, data, m.correlation_id)

\* AudioProcessor._handle_audio_processing_request with remove_ads.  `ok` is
\* whether loading, slicing and exporting the audio succeed.
AudioProcessorHandle(m, ok) ==
  /\ Delivered(m, AUDIO_PROCESSING_REQUEST)
  /\ LET file_path == Get(m.data, "file_path")
         transcript_path == Get(m.data, "transcript_path")
     IN IF ~IsRunning("audio_processor")
        THEN /\ Publish(m, "audio_processor", {})
             /\ UNCHANGED <<store, heavy>>
        ELSE IF ~Truthy(file_path) \/ ~Truthy(transcript_path)
        THEN /\ Publish(m, "audio_processor",
                        {AudioProcessingFailed(m, [error |-> "Missing file_path or transcript_path"])})
             /\ UNCHANGED <<store, heavy>>
        ELSE IF ~Exists(transcript_path) \/ ~Exists(file_path) \/ ~ok
        THEN /\ Publish(m, "audio_processor",
                        {AudioProcessingFailed(m, [file_path |-> file_path,
                                                   error |-> "Failed to process audio"])})
             /\ UNCHANGED <<store, heavy>>
        ELSE IF store[transcript_path] = "transcript_ads"
        THEN \* the cut set is not empty: render and export <base>_clean<ext>
             /\ heavy' = Ran("render", file_path)
             /\ store' = Put(OutputPath(file_path), "clean_audio")
             /\ Publish(m, "audio_processor", {AudioProcessingComplete(m, file_path, OutputPath(file_path))})
        ELSE \* no ads found: remove_ads returns the input file
             /\ UNCHANGED <<store, heavy>>
             /\ Publish(m, "audio_processor", {AudioProcessingComplete(m, file_path, file_path)})
  /\ UNCHANGED <<running, stops, rss_vars, unit_vars, redelivered, web_vars, dl_vars, tr_vars, ad_vars>>

\* ------------------------------------------------------------------ RSS feeds
\* The pseudo-topic of a broker client's publish().
CLIENT_PUBLISH == "publish"

\* The base URL a requester may put in the message.
BaseUrl == "http://localhost:8080"

\* The podcast_info feedparser's result is turned into: the feed's link and its
\* episodes that carry an audio enclosure (every feed here has one).
ParseFeed(rss_url) ==
  [link |-> rss_url,
   episodes |-> <<[audio_url |-> "https://ex.com/a.mp3", original_url |-> None]>>]

\* The loop that points the episodes at /process of this server.
RewriteEpisodes(podcast_info, base_url) ==
  [podcast_info EXCEPT !.episodes =
     [i \in 1..Len(podcast_info.episodes) |->
        [audio_url |-> base_url \o "/process?url=" \o podcast_info.episodes[i].audio_url,
         original_url |-> podcast_info.episodes[i].audio_url]]]

\* WebServer.generate_rss_xml: the channel's link and one enclosure per episode.
GenerateRssXml(podcast_info) ==
  <<"rss", podcast_info.link,
    [i \in 1..Len(podcast_info.episodes) |-> podcast_info.episodes[i].audio_url]>>

\* WebServer.get_cached_podcast_info
GetCachedPodcastInfo(rss_url) == Get(cached_podcast_info, rss_url)

\* RequestHandler._handle_rss_request for GET /rss?url=<rss_url>.  On a miss
\* the first statement of the try block reads WebServer.use_https, which no
\* WebServer has: the AttributeError is caught by the handler's except clause
\* before the feed is fetched.
Rss(rss_url) ==
  /\ running["web"]
  /\ Len(rss_responses) < MaxEvents
  /\ rss_responses' = Append(rss_responses,
       IF ~Truthy(rss_url)
       THEN [url |-> rss_url, code |-> 400, body |-> "Missing URL parameter"]
       ELSE IF rss_url \in DOMAIN cached_podcast_info
       THEN [url |-> rss_url, code |-> 200, body |-> GenerateRssXml(GetCachedPodcastInfo(rss_url))]
       ELSE [url |-> rss_url, code |-> 500,
             body |-> "Failed to process RSS feed: 'WebServer' object has no attribute 'use_https'"])
  /\ UNCHANGED <<running, stops, bus, published, redelivered, web_vars, dl_vars, tr_vars, ad_vars, store, heavy>>
  /\ UNCHANGED <<rss_feeds_processed, rss_disk, file_lock, cached_podcast_info, unit_vars>>

\* A client of the broker publishes an RSS_DOWNLOAD_REQUEST.
RssDownloadRequest(data, correlation_id) ==
  Message(RSS_DOWNLOAD_REQUEST, data, correlation_id)

PublishCall(data, correlation_id) ==
  [topic |-> CLIENT_PUBLISH, data |-> data,
   message_id |-> <<CLIENT_PUBLISH, correlation_id, 1>>, correlation_id |-> correlation_id]

RequestRss(data, correlation_id) ==
  /\ running["broker"]
  /\ Cardinality({p \in published : p.msg.topic = RSS_DOWNLOAD_REQUEST}) < MaxEvents
  /\ Reply(PublishCall(data, correlation_id), "client", {RssDownloadRequest(data, correlation_id)})
  /\ UNCHANGED <<running, stops, redelivered, web_vars, dl_vars, tr_vars, ad_vars, rss_vars, unit_vars, store, heavy>>

\* The messages the Downloader publishes for a feed.
RssDownloadComplete(m, rss_url, podcast_info) ==
  Message(RSS_DOWNLOAD_COMPLETE, [rss_url |-> rss_url, podcast_info |-> podcast_info], m.correlation_id)
RssDownloadFailed(m, data) == Message(RSS_DOWNLOAD_FAILED, data, m.correlation_id)

\* The episode rewrite of _handle_rss_download_request: only with a base_url.
WithBaseUrl(m, podcast_info) ==
  IF Truthy(Get(m.data, "base_url"))
  THEN RewriteEpisodes(podcast_info, m.data.base_url)
  ELSE podcast_info

\* PodcastDownloader._handle_rss_download_request with download_rss.  `ok` is
\* whether feedparser.parse returns for the call made under the lock, `again`
\* whether it returns for the call made after the lock is released.
\* file_lock is a threading.Lock: download_rss, which takes it to record the
\* feed, blocks for ever when the handler that called it holds it already.
DownloaderHandleRss(m, ok, again) ==
  /\ Delivered(m, RSS_DOWNLOAD_REQUEST)
  /\ LET rss_url == Get(m.data, "rss_url")
         podcast_info == WithBaseUrl(m, ParseFeed(rss_url))
         failed == RssDownloadFailed(m, [rss_url |-> rss_url,
                                         error |-> "Failed to download RSS feed: URLError"])
     IN IF ~IsRunning("downloader")
        THEN /\ Publish(m, "downloader", {})
             /\ UNCHANGED <<rss_feeds_processed, rss_disk, dl_disk, file_lock, heavy>>
        ELSE IF ~Truthy(rss_url)
        THEN /\ Publish(m, "downloader", {RssDownloadFailed(m, [error |-> "No RSS URL provided"])})
             /\ UNCHANGED <<rss_feeds_processed, rss_disk, dl_disk, file_lock, heavy>>
        ELSE IF file_lock # {}
        THEN FALSE   \* `with self.file_lock` blocks while another handler holds the lock
        ELSE IF rss_url \in rss_feeds_processed /\ ok
        THEN \* download_rss under the lock reaches its own `with self.file_lock`
             /\ file_lock' = {m}
             /\ heavy' = Ran("feed_parse", rss_url)
             /\ Publish(m, "downloader", {})
             /\ UNCHANGED <<rss_feeds_processed, rss_disk, dl_disk>>
        ELSE IF again
        THEN /\ heavy' = Ran("feed_parse", rss_url)
             /\ rss_feeds_processed' = rss_feeds_processed \cup {rss_url}
             /\ rss_disk' = SaveProcessedFiles(rss_feeds_processed')
             /\ dl_disk' = SaveProcessedFiles(dl_processed_files)
             /\ Publish(m, "downloader", {RssDownloadComplete(m, rss_url, podcast_info)})
             /\ UNCHANGED file_lock
        ELSE /\ heavy' = Ran("feed_parse", rss_url)
             /\ Publish(m, "downloader", {failed})
             /\ UNCHANGED <<rss_feeds_processed, rss_disk, dl_disk, file_lock>>
  /\ UNCHANGED <<running, stops, redelivered, web_vars, tr_vars, ad_vars, store>>
  /\ UNCHANGED <<dl_processed_files, dl_files_in_process, dl_handling, cached_podcast_info, rss_responses, unit_vars>>

\* What a front-end feed handler leaves alone besides the cache and the table.
RssFrame ==
  /\ UNCHANGED <<running, stops, redelivered, file_mappings, url_to_file, responses>>
  /\ UNCHANGED <<dl_vars, tr_vars, ad_vars, store, heavy>>
  /\ UNCHANGED <<rss_feeds_processed, rss_disk, file_lock, rss_responses, unit_vars>>

\* WebServer._handle_rss_download_complete: the cache is written first; the
\* last statement indexes pending_requests and raises KeyError, after the
\* cache write, when the request id is not in the table.
HandleRssDownloadComplete(m) ==
  /\ Delivered(m, RSS_DOWNLOAD_COMPLETE)
  /\ LET request_id == m.correlation_id
         podcast_info == Get(m.data, "podcast_info")
         rss_url == Get(m.data, "rss_url")
         updated == UpdateRequestStatus(request_id, "completed",
                                        [name |-> "rss_download", status |-> "completed"])
     IN IF ~Truthy(request_id) \/ "podcast_info" \notin DOMAIN m.data \/ ~Truthy(rss_url)
        THEN UNCHANGED <<cached_podcast_info, pending_requests>>
        ELSE /\ cached_podcast_info' = With(cached_podcast_info, rss_url, podcast_info)
             /\ pending_requests' =
                  IF request_id \in DOMAIN updated
                  THEN With(updated, request_id,
                            With(updated[request_id], "podcast_info", podcast_info))
                  ELSE updated
  /\ Publish(m, "web", {})
  /\ RssFrame

\* WebServer._handle_rss_download_failed
HandleRssDownloadFailed(m) ==
  /\ Delivered(m, RSS_DOWNLOAD_FAILED)
  /\ LET request_id == m.correlation_id
     IN IF ~Truthy(request_id)
        THEN UNCHANGED pending_requests
        ELSE pending_requests' =
               UpdateRequestStatus(request_id, "failed",
                                   [name |-> "rss_download", status |-> "failed",
                                    error |-> Get(m.data, "error")])
  /\ UNCHANGED cached_podcast_info
  /\ Publish(m, "web", {})
  /\ RssFrame

\* ------------------------------------------------------------------ library functions
\* What a call of a library function leaves alone.
CallFrame ==
  /\ UNCHANGED <<running, stops, bus, published, redelivered, web_vars, dl_vars, tr_vars, ad_vars,
              rss_vars, transcript_files, broker_vars, store, heavy>>

\* models.Segment.  A text is the sequence of its words, times are whole seconds.
Segment(id, text, start, end, is_ad) ==
  [id |-> id, text |-> text, start |-> start, end |-> end, is_ad |-> is_ad]

\* str.lower(), word by word.
LowerWord(w) ==
  CASE w = "Bleiben" -> "bleiben"
    [] w = "Sie" -> "sie"
    [] w = "Tickets" -> "tickets"
    [] w = "Hallo" -> "hallo"
    [] w = "Aber" -> "aber"
    [] w = "Alle" -> "alle"
    [] w = "Am" -> "am"
    [] w = "Antworten" -> "antworten"
    [] w = "Die" -> "die"
    [] w = "Erdgasersatz" -> "erdgasersatz"
    [] w = "Gruenestrom" -> "gruenestrom"
    [] w = "Handelsblatt" -> "handelsblatt"
    [] w = "Handelsblatt-Wasserstoffgipfel.de" -> "handelsblatt-wasserstoffgipfel.de"
    [] w = "Industrie" -> "industrie"
    [] w = "Infos" -> "infos"
    [] w = "Klimaschutz" -> "klimaschutz"
    [] w = "Mai" -> "mai"
    [] w = "Mit" -> "mit"
    [] w = "Nach" -> "nach"
    [] w = "Prozent" -> "prozent"
    [] w = "Regular" -> "regular"
    [] w = "Rohstoff" -> "rohstoff"
    [] w = "Saarbruecken" -> "saarbruecken"
    [] w = "Schluessel" -> "schluessel"
    [] w = "Some" -> "some"
    [] w = "Speicher" -> "speicher"
    [] w = "Unterbrechung" -> "unterbrechung"
    [] w = "Vorteilskot" -> "vorteilskot"
    [] w = "Wasserstoff" -> "wasserstoff"
    [] w = "Wasserstoffgipfel" -> "wasserstoffgipfel"
    [] w = "Wasserstoffwirtschaft" -> "wasserstoffwirtschaft"
    [] w = "Zeit" -> "zeit"
    [] OTHER -> w
Lower(text) == [i \in 1..Len(text) |-> LowerWord(text[i])]

\* `phrase in text`: the words of the phrase occur in the text, adjacent and in order.
Contains(phrase, text) ==
  \E k \in 0..(Len(text) - Len(phrase)) : SubSeq(text, k + 1, k + Len(phrase)) = phrase

\* transition_phrases of _merge_adjacent_ads
TransitionPhrases ==
  {<<"nach", "einer", "kurzen", "unterbrechung">>, <<"bleiben", "sie", "dran">>,
   <<"wir", "sind", "gleich", "wieder", "da">>, <<"gleich", "geht", "es", "weiter">>}
HasTransitionPhrase(text) == \E phrase \in TransitionPhrases : Contains(phrase, Lower(text))

\* AdDetector._is_promotional_content
PromotionalIndicators ==
  {<<"tickets">>, <<"infos">>, <<"anmeldung">>, <<"weitere", "informationen">>, <<"sparen", "sie">>,
   <<"rabatt">>, <<"vorteilscode">>, <<"jetzt", "buchen">>, <<"besuchen", "sie">>, <<"mehr", "erfahren">>}
\* A check that finds no text promotional.
NeverPromotional(text) == FALSE
IsPromotionalContent(text) == \E indicator \in PromotionalIndicators : Contains(indicator, Lower(text))

\* The 5.0 seconds of _merge_adjacent_ads.
TimeGap == 5

\* The while loop of _merge_adjacent_ads from j on; ad_segments is the set of
\* the indices marked so far (is_ad and ad_segments are set together).
RECURSIVE LookForward(_, _, _)
LookForward(segments, ad_segments, j) ==
  IF j > Len(segments) THEN ad_segments
  ELSE IF j \in ad_segments \/ IsPromotionalContent(segments[j].text)
  THEN LookForward(segments, ad_segments \cup {j}, j + 1)
  ELSE IF /\ j + 1 <= Len(segments)
          /\ j + 1 \in ad_segments
          /\ segments[j + 1].start - segments[j].end <= TimeGap
  THEN LookForward(segments, ad_segments \cup {j}, j + 1)
  ELSE ad_segments

\* The for loop of _merge_adjacent_ads from i on.
RECURSIVE MarkAdBlocks(_, _, _)
MarkAdBlocks(segments, ad_segments, i) ==
  IF i > Len(segments) THEN ad_segments
  ELSE IF i \notin ad_segments /\ HasTransitionPhrase(segments[i].text)
  THEN MarkAdBlocks(segments, LookForward(segments, ad_segments \cup {i}, i + 1), i + 1)
  ELSE MarkAdBlocks(segments, ad_segments, i + 1)

\* AdDetector._merge_adjacent_ads: the list as the call leaves it.
MergeAdjacentAds(segments) ==
  LET ad_segments == {i \in 1..Len(segments) : segments[i].is_ad}
  IN IF ad_segments = {}
     THEN segments
     ELSE [i \in 1..Len(segments) |->
             [segments[i] EXCEPT !.is_ad = i \in MarkAdBlocks(segments, ad_segments, 1)]]

\* The segment lists the functions are called with: up to MaxSegments
\* segments of ten seconds each, with a pause of five or six seconds between
\* two segments, any of three texts and any marking.
Texts == {<<"Bleiben", "Sie", "dran">>, <<"Tickets">>, <<"Hallo">>}
Pauses == {5, 6}
SegmentSeconds == 10
RECURSIVE StartOf(_, _)
StartOf(pauses, i) == IF i = 1 THEN 0 ELSE StartOf(pauses, i - 1) + SegmentSeconds + pauses[i - 1]
SegmentLists ==
  UNION {{[i \in 1..n |-> Segment(i, texts[i], StartOf(pauses, i), StartOf(pauses, i) + SegmentSeconds, ads[i])] :
            texts \in [1..n -> Texts], pauses \in [1..n -> Pauses], ads \in [1..n -> BOOLEAN]} :
         n \in 1..MaxSegments}

\* A test that finds every ad continuous with the block before it.
AlwaysContinuous(seg, last, max_gap) == TRUE

\* `(seg.start - current_block[-1].end) <= max_gap`
Continuous(seg, last, max_gap) == seg.start - last.end <= max_gap

\* The for loop of _get_ad_blocks from segment i on, and the append after it.
RECURSIVE CollectBlocks(_, _, _, _, _)
CollectBlocks(segments, max_gap, blocks, current_block, i) ==
  IF i > Len(segments)
  THEN IF current_block # <<>> THEN Append(blocks, current_block) ELSE blocks
  ELSE LET seg == segments[i]
       IN IF seg.is_ad
          THEN IF current_block = <<>>
               THEN CollectBlocks(segments, max_gap, blocks, <<seg>>, i + 1)
               ELSE IF Continuous(seg, current_block[Len(current_block)], max_gap)
               THEN CollectBlocks(segments, max_gap, blocks, Append(current_block, seg), i + 1)
               ELSE CollectBlocks(segments, max_gap, Append(blocks, current_block), <<seg>>, i + 1)
          ELSE IF current_block # <<>>
          THEN CollectBlocks(segments, max_gap, Append(blocks, current_block), <<>>, i + 1)
          ELSE CollectBlocks(segments, max_gap, blocks, current_block, i + 1)

\* AdDetector._get_ad_blocks with the default max_gap.
GetAdBlocks(segments) == CollectBlocks(segments, TimeGap, <<>>, <<>>, 1)

CallGetAdBlocks(segments) ==
  /\ call.fn = None
  /\ call' = [fn |-> "_get_ad_blocks", args |-> segments, result |-> GetAdBlocks(segments)]
  /\ CallFrame

\* The segments of test_merge_adjacent_ads (test_ad_detector.py 19-32), words
\* without punctuation and times cut to whole seconds.
TestSegments ==
  <<Segment(147, <<"Some", "content">>, 460, 464, FALSE),
     Segment(148, <<"Nach", "einer", "kurzen", "Unterbrechung", "geht", "es", "gleich", "weiter">>, 464, 467, FALSE),
     Segment(149, <<"Bleiben", "Sie", "dran">>, 467, 469, FALSE),
     Segment(150, <<"Die", "Wasserstoffwirtschaft", "stoppt", "doch", "die", "Zeit", "draengt">>, 469, 472, FALSE),
     Segment(151, <<"Wasserstoff", "kann", "ein", "Schluessel", "fuer", "den", "Klimaschutz", "sein">>, 472, 475, FALSE),
     Segment(152, <<"als", "Rohstoff", "fuer", "die", "Industrie", "Speicher", "fuer", "Gruenestrom", "oder", "Erdgasersatz">>, 475, 480, FALSE),
     Segment(153, <<"Aber", "wie", "kommen", "wir", "schneller", "voran">>, 480, 482, FALSE),
     Segment(154, <<"Antworten", "gibt", "der", "Handelsblatt", "Wasserstoffgipfel", "2025">>, 482, 486, TRUE),
     Segment(155, <<"Am", "21", "und", "22", "Mai", "in", "Saarbruecken">>, 486, 489, TRUE),
     Segment(156, <<"Alle", "Infos", "und", "Tickets", "auf", "Handelsblatt-Wasserstoffgipfel.de">>, 489, 494, TRUE),
     Segment(157, <<"Mit", "dem", "Vorteilskot", "Wasserstoff", "2025", "sparen", "sie", "15", "Prozent">>, 494, 499, TRUE),
     Segment(158, <<"Regular", "content", "continues">>, 499, 505, FALSE)>>

CallMergeAdjacentAds(segments) ==
  /\ call.fn = None
  /\ call' = [fn |-> "_merge_adjacent_ads", args |-> segments, result |-> MergeAdjacentAds(segments)]
  /\ CallFrame

\* AudioConfig.min_duration and AudioConfig.max_gap, in seconds.
MinDuration == 5
MaxGap == 20

\* sorted(segments) on (start, end) tuples: by start, then by end.
TupleLeq(a, b) == a[1] < b[1] \/ (a[1] = b[1] /\ a[2] <= b[2])
RECURSIVE Insert(_, _)
Insert(x, s) ==
  IF s = <<>> THEN <<x>>
  ELSE IF TupleLeq(x, Head(s)) THEN <<x>> \o s
  ELSE <<Head(s)>> \o Insert(x, Tail(s))
RECURSIVE Sorted(_)
Sorted(s) == IF s = <<>> THEN <<>> ELSE Insert(Head(s), Sorted(Tail(s)))

Max(a, b) == IF a >= b THEN a ELSE b

\* An append that keeps the short intervals too.
KeepAny(merged, current_start, current_end) == Append(merged, <<current_start, current_end>>)

\* `if current_end - current_start >= self.config.min_duration: merged.append(...)`
KeepLong(merged, current_start, current_end) ==
  IF current_end - current_start >= MinDuration
  THEN Append(merged, <<current_start, current_end>>)
  ELSE merged

\* The sweep of _merge_segments over the intervals that follow the first one,
\* and the append of the last interval.
RECURSIVE Sweep(_, _, _, _)
Sweep(rest, current_start, current_end, merged) ==
  IF rest = <<>>
  THEN KeepLong(merged, current_start, current_end)
  ELSE LET start == Head(rest)[1]
           end == Head(rest)[2]
       IN IF start <= current_end + MaxGap
          THEN Sweep(Tail(rest), current_start, Max(current_end, end), merged)
          ELSE Sweep(Tail(rest), start, end, KeepLong(merged, current_start, current_end))

\* AudioProcessor._merge_segments
MergeSegments(segments) ==
  IF segments = <<>> THEN <<>>
  ELSE LET sorted == Sorted(segments)
       IN Sweep(Tail(sorted), Head(sorted)[1], Head(sorted)[2], <<>>)

\* The interval lists _merge_segments is called with: up to MaxIntervals
\* intervals, in any order, between any two of these instants.
Instants == {0, 4, 5, 25, 26, 50}
Intervals == {<<a, b>> : a \in Instants, b \in Instants} \ {<<a, b>> \in Instants \X Instants : a >= b}
IntervalLists == UNION {[1..n -> Intervals] : n \in 0..MaxIntervals}

CallMergeSegments(segments) ==
  /\ call.fn = None
  /\ call' = [fn |-> "_merge_segments", args |-> segments, result |-> MergeSegments(segments)]
  /\ CallFrame

\* models.Transcript.  A datetime is its date, its time of day in seconds and
\* its microseconds.
Transcript(segments, processed_at) == [segments |-> segments, processed_at |-> processed_at]
Datetime(date, seconds, microsecond) == [date |-> date, seconds |-> seconds, microsecond |-> microsecond]

\* datetime.isoformat(): "YYYY-MM-DDTHH:MM:SS", followed by ".ffffff" only when
\* the microseconds are not zero.  The string is the sequence of its parts.
IsoFormat(dt) ==
  IF dt.microsecond = 0
  THEN <<dt.date, "T", dt.seconds>>
  ELSE <<dt.date, "T", dt.seconds, ".", dt.microsecond>>

\* A parse that reads the date and the time and stops at the fraction.
FromIsoFormatSeconds(date_string) == Datetime(date_string[1], date_string[3], 0)

\* datetime.fromisoformat(): the fraction is optional.
FromIsoFormat(date_string) ==
  Datetime(date_string[1], date_string[3], IF Len(date_string) = 5 THEN date_string[5] ELSE 0)

\* Transcript.to_dict
ToDict(transcript) ==
  [segments |-> [i \in 1..Len(transcript.segments) |->
                   [id |-> transcript.segments[i].id,
                    text |-> transcript.segments[i].text,
                    start |-> transcript.segments[i].start,
                    end |-> transcript.segments[i].end,
                    is_ad |-> transcript.segments[i].is_ad]],
   processed_at |-> IsoFormat(transcript.processed_at)]

\* Transcript.from_dict
FromDict(data) ==
  Transcript([i \in 1..Len(data.segments) |->
                Segment(data.segments[i].id, data.segments[i].text, data.segments[i].start,
                        data.segments[i].end, data.segments[i].is_ad)],
             FromIsoFormat(data.processed_at))

\* The transcripts the functions are called with.
Datetimes == {Datetime("2025-03-01", s, us) : s \in {0, 43200}, us \in {0, 250000}}
Transcripts == {Transcript(segments, processed_at) :
                  segments \in SegmentLists \cup {<<>>}, processed_at \in Datetimes}

\* serialize, deserialize, serialize
CallToDictFromDict(transcript) ==
  /\ call.fn = None
  /\ call' = [fn |-> "to_dict/from_dict", args |-> transcript,
               dict |-> ToDict(transcript),
               result |-> FromDict(ToDict(transcript)),
               again |-> ToDict(FromDict(ToDict(transcript)))]
  /\ CallFrame

\* ------------------------------------------------------------------ detect_ads
\* LLMConfig.chunk_size (600 in the default configuration) and LLMConfig.max_attempts.
ChunkSize == 2
MaxAttempts == 3

Min(a, b) == IF a <= b THEN a ELSE b

\* AdDetector._create_chunks
CreateChunks(transcript) ==
  [c \in 1..((Len(transcript.segments) + ChunkSize - 1) \div ChunkSize) |->
     [chunk_id |-> c - 1,
      segments |-> SubSeq(transcript.segments, (c - 1) * ChunkSize + 1,
                          Min(c * ChunkSize, Len(transcript.segments)))]]

\* What the classifier does with a chunk: every attempt fails (time-out,
\* malformed JSON, refusal), or the first attempt answers with the ids of the
\* segments it takes for ads.
ChunkResponses(chunk) ==
  {[error |-> TRUE, ads |-> {}]} \cup
  {[error |-> FALSE, ads |-> ads] : ads \in SUBSET {chunk.segments[i].id : i \in 1..Len(chunk.segments)}}

\* What the classifier may do with the chunks of a transcript, chunk by chunk.
AnswerLists(transcript) ==
  LET chunks == CreateChunks(transcript)
  IN {answers \in [1..Len(chunks) -> UNION {ChunkResponses(chunks[c]) : c \in 1..Len(chunks)}] :
        \A c \in 1..Len(chunks) : answers[c] \in ChunkResponses(chunks[c])}

\* AdDetector._process_chunk for a classifier that times out at every attempt
\* or answers the first one in full: the ProcessingResult, and how many
\* requests were sent to the classifier.
ProcessChunk(chunk, response) ==
  IF response.error
  THEN [chunk_id |-> chunk.chunk_id, segments |-> chunk.segments,
        error |-> "Request timed out.", attempts |-> MaxAttempts]
  ELSE [chunk_id |-> chunk.chunk_id,
        segments |-> [i \in 1..Len(chunk.segments) |->
                        [chunk.segments[i] EXCEPT !.is_ad = chunk.segments[i].id \in response.ads]],
        error |-> None, attempts |-> 1]

\* The chunks _process_chunk is called with: up to chunk_size segments.
UnitChunks ==
  {[chunk_id |-> 0, segments |-> segments] :
     segments \in {s \in SegmentLists : Len(s) <= ChunkSize /\ \A i \in 1..Len(s) : s[i].text = <<"Hallo">>}}

\* What one attempt may meet: the debug directory cannot be written, the
\* request to the classifier raises, the content is not JSON, it is JSON
\* without "segments", or it has a list of entries, each with or without its
\* "id" and "ad".
AttemptOutcomes(chunk) ==
  LET ids == {chunk.segments[i].id : i \in 1..Len(chunk.segments)}
      entries == [id : ids, ad : BOOLEAN] \cup [id : ids] \cup [ad : BOOLEAN]
  IN {[kind |-> "unwritable"], [kind |-> "error"], [kind |-> "malformed"], [kind |-> "no_segments"]} \cup
     {[kind |-> "answer", segments |-> l] : l \in UNION {[1..n -> entries] : n \in 0..Len(chunk.segments)}}

\* next((r for r in result["segments"] if r["id"] == segment.id), None),
\* from entry j on: the entry, nothing, or the KeyError of r["id"].
RECURSIVE MatchingResult(_, _, _)
MatchingResult(entries, id, j) ==
  IF j > Len(entries) THEN [found |-> FALSE, error |-> None]
  ELSE IF "id" \notin DOMAIN entries[j] THEN [found |-> FALSE, error |-> "'id'"]
  ELSE IF entries[j].id = id THEN [found |-> TRUE, error |-> None, entry |-> entries[j]]
  ELSE MatchingResult(entries, id, j + 1)

\* The loop "for segment in chunk.segments" from segment i on: the segments
\* as the loop leaves them, and the exception that ended it, if any.
RECURSIVE UpdateSegments(_, _, _)
UpdateSegments(segments, entries, i) ==
  IF i > Len(segments) THEN [segments |-> segments, error |-> None]
  ELSE LET matching_result == MatchingResult(entries, segments[i].id, 1)
       IN IF matching_result.error # None
          THEN [segments |-> segments, error |-> matching_result.error]
          ELSE IF ~matching_result.found
          THEN UpdateSegments(segments, entries, i + 1)
          ELSE IF "ad" \notin DOMAIN matching_result.entry
          THEN [segments |-> segments, error |-> "'ad'"]
          ELSE UpdateSegments([segments EXCEPT ![i].is_ad = matching_result.entry.ad], entries, i + 1)

\* The try block of _process_chunk: the segments after it, str(e) of the
\* exception it raised, and whether the classifier was called.
TryChunk(segments, outcome) ==
  CASE outcome.kind = "unwritable" ->
         [segments |-> segments, error |-> "[Errno 13] Permission denied", requested |-> FALSE]
    [] outcome.kind = "error" ->
         [segments |-> segments, error |-> "Request timed out.", requested |-> TRUE]
    [] outcome.kind = "malformed" ->
         [segments |-> segments, error |-> "Expecting value: line 1 column 1 (char 0)", requested |-> TRUE]
    [] outcome.kind = "no_segments" ->
         [segments |-> segments, error |-> "'segments'", requested |-> TRUE]
    [] outcome.kind = "answer" ->
         LET updated == UpdateSegments(segments, outcome.segments, 1)
         IN [segments |-> updated.segments, error |-> updated.error, requested |-> TRUE]

\* A loop that makes one attempt more.
LoopContinuesOnceMore(attempts, max_attempts) == attempts <= max_attempts

\* `while attempts < self.config.max_attempts`
LoopContinues(attempts, max_attempts) == attempts < max_attempts

\* return ProcessingResult(chunk_id, segments=chunk.segments, error)
ReturnResult(c, error) ==
  [c EXCEPT !.returned = TRUE,
            !.result = [chunk_id |-> c.args.chunk_id, segments |-> c.segments, error |-> error]]

\* _process_chunk is called: attempts = 0, last_error = None, and the loop
\* test.  `segments` are the chunk's segments, which the attempts change in
\* place; `requests`, `failures` and `succeeded` are history: the requests
\* sent to the classifier, str(e) of every failed attempt, and whether the
\* try block reached its return.
CallProcessChunk(chunk, max_attempts) ==
  /\ call.fn = None
  /\ LET c == [fn |-> "_process_chunk", args |-> chunk, max_attempts |-> max_attempts,
                segments |-> chunk.segments, attempts |-> 0, last_error |-> None,
                requests |-> 0, failures |-> <<>>, succeeded |-> FALSE,
                returned |-> FALSE, result |-> [chunk_id |-> chunk.chunk_id, segments |-> <<>>, error |-> None]]
     IN call' = IF LoopContinues(0, max_attempts) THEN c ELSE ReturnResult(c, None)
  /\ CallFrame

\* One turn of the while loop: the try block, then the return, or the except
\* block, the loop test and the return after the loop.
ProcessChunkAttempt ==
  /\ call.fn = "_process_chunk"
  /\ ~call.returned
  /\ \E outcome \in AttemptOutcomes(call.args) :
       LET try == TryChunk(call.segments, outcome)
           c == [call EXCEPT !.segments = try.segments,
                             !.requests = @ + (IF try.requested THEN 1 ELSE 0)]
       IN IF try.error = None
          THEN call' = ReturnResult([c EXCEPT !.succeeded = TRUE], None)
          ELSE LET failed == [c EXCEPT !.last_error = try.error, !.attempts = @ + 1,
                                       !.failures = Append(@, try.error)]
               IN call' = IF LoopContinues(failed.attempts, failed.max_attempts)
                          THEN failed
                          ELSE ReturnResult(failed, failed.last_error)
  /\ CallFrame

\* A loop over the chunks that gives up at the first chunk that failed.
RECURSIVE ProcessChunksUntilError(_, _, _)
ProcessChunksUntilError(chunks, answers, i) ==
  IF i > Len(chunks) THEN <<>>
  ELSE IF answers[i].error THEN <<ProcessChunk(chunks[i], answers[i])>>
  ELSE <<ProcessChunk(chunks[i], answers[i])>> \o ProcessChunksUntilError(chunks, answers, i + 1)

\* The loop of detect_ads over the chunks, from chunk i on: the results in order.
RECURSIVE ProcessChunks(_, _, _)
ProcessChunks(chunks, answers, i) ==
  IF i > Len(chunks) THEN <<>>
  ELSE <<ProcessChunk(chunks[i], answers[i])>> \o ProcessChunks(chunks, answers, i + 1)

\* processed_segments[segment.id] = segment over all the results, and the
\* list of its values by ascending id.
AllResults(results) ==
  LET found == {<<r, i>> \in (1..Len(results)) \X (1..ChunkSize) : i <= Len(results[r].segments)}
      ids == {results[p[1]].segments[p[2]].id : p \in found}
      last(id) == CHOOSE p \in found :
                    /\ results[p[1]].segments[p[2]].id = id
                    /\ \A q \in found : results[q[1]].segments[q[2]].id = id =>
                                           (q[1] < p[1] \/ (q[1] = p[1] /\ q[2] <= p[2]))
      nth(k) == CHOOSE id \in ids : Cardinality({x \in ids : x < id}) = k - 1
  IN [k \in 1..Cardinality(ids) |-> LET p == last(nth(k)) IN results[p[1]].segments[p[2]]]

\* datetime.now() at the time models.py was imported: the default of
\* Transcript.processed_at is evaluated once, with the class.
ImportTime == Datetime("2025-03-01", 0, 250000)

\* AdDetector.detect_ads: the Transcript it returns, the errors it collects
\* and the results of the chunks it submitted.
DetectAds(transcript, answers) ==
  LET results == ProcessChunks(CreateChunks(transcript), answers, 1)
      failed == {r \in 1..Len(results) : results[r].error # None}
  IN [transcript |-> Transcript(MergeAdjacentAds(AllResults(results)), ImportTime),
      errors |-> {<<results[r].chunk_id, results[r].error>> : r \in failed},
      results |-> results]

\* The chat completion requests of one detect_ads call, added to the history.
RanChunks(file_path, results) ==
  LET keys == {<<"chat_completion", <<file_path, results[r].chunk_id>>>> : r \in 1..Len(results)}
      sent(k) == LET r == CHOOSE r \in 1..Len(results) : results[r].chunk_id = k[2][2]
                 IN results[r].attempts
  IN [k \in DOMAIN heavy \cup keys |->
        (IF k \in DOMAIN heavy THEN heavy[k] ELSE 0) + (IF k \in keys THEN sent(k) ELSE 0)]

\* A client writes a transcript file and publishes the AD_DETECTION_REQUEST for it.
RequestAdDetection(file_path, transcript, correlation_id) ==
  /\ running["broker"]
  /\ published = {}
  /\ LET transcript_path == TranscriptPath(file_path)
         data == [file_path |-> file_path, transcript_path |-> transcript_path]
     IN /\ transcript_files' = With(transcript_files, transcript_path, ToDict(transcript))
        /\ store' = Put(transcript_path, "transcript")
        /\ Reply(PublishCall(data, correlation_id), "client",
                 {AdDetectionRequest(correlation_id, file_path, transcript_path)})
  /\ UNCHANGED <<running, stops, redelivered, web_vars, dl_vars, tr_vars, ad_vars, rss_vars,
                  call, broker_vars, heavy>>

\* The try block of _handle_ad_detection_request with the transcript's
\* content: load, detect_ads, write back, mark processed, reply.  `writable`
\* is whether the transcript file can be written.
AdDetectorDetect(file_path, writable) ==
  /\ file_path \in DOMAIN ad_handling
  /\ LET m == ad_handling[file_path]
         transcript_path == Get(m.data, "transcript_path")
     IN IF transcript_path \notin DOMAIN transcript_files
        THEN \* open(transcript_path) raises
             /\ UNCHANGED <<store, heavy, ad_processed_files, ad_disk, transcript_files, call>>
             /\ Reply(m, "ad_detector",
                      {AdDetectionFailed(m, [file_path |-> file_path,
                                               error |-> "No such file or directory"])})
        ELSE \E answers \in AnswerLists(FromDict(transcript_files[transcript_path])) :
               LET transcript == FromDict(transcript_files[transcript_path])
                   detected == DetectAds(transcript, answers)
               IN /\ call' = [fn |-> "detect_ads", args |-> transcript, result |-> detected.transcript,
                               errors |-> detected.errors, results |-> detected.results]
                  /\ heavy' = RanChunks(file_path, detected.results)
                  /\ IF writable
                     THEN /\ transcript_files' = With(transcript_files, transcript_path,
                                                       ToDict(detected.transcript))
                          /\ store' = Put(transcript_path,
                                          IF \E i \in 1..Len(detected.transcript.segments) :
                                               detected.transcript.segments[i].is_ad
                                          THEN "transcript_ads" ELSE "transcript")
                          /\ ad_processed_files' = ad_processed_files \cup {file_path}
                          /\ ad_disk' = SaveProcessedFiles(ad_processed_files')
                          /\ Reply(m, "ad_detector", {AdDetectionComplete(m, file_path, transcript_path)})
                     ELSE /\ UNCHANGED <<transcript_files, store, ad_processed_files, ad_disk>>
                          /\ Reply(m, "ad_detector",
                                   {AdDetectionFailed(m, [file_path |-> file_path,
                                                            error |-> "Permission denied"])})
  /\ ad_files_in_process' = ad_files_in_process \ {file_path}
  /\ ad_handling' = Without(ad_handling, file_path)
  /\ UNCHANGED <<running, stops, redelivered, web_vars, dl_vars, tr_vars, rss_vars, broker_vars>>

\* ------------------------------------------------------------------ specifications
Next ==
  \/ \E c \in Components : Start(c)
  \/ \E c \in Workers : Stop(c)
  \/ \E url \in URLs : Process(url)
  \/ \E m \in {p.msg : p \in published} : Redeliver(m)
  \/ \E m \in bus : DownloaderHandle(m)
  \/ \E url \in DOMAIN dl_handling, ok \in BOOLEAN : DownloaderFinish(url, ok)
  \/ \E m \in bus : TranscriberHandle(m)
  \/ \E k \in DOMAIN tr_handling, ok \in BOOLEAN : TranscriberFinish(k, ok)
  \/ \E m \in bus : AdDetectorHandle(m)
  \/ \E k \in DOMAIN ad_handling, outcome \in AdOutcomes : AdDetectorFinish(k, outcome)
  \/ \E m \in bus, ok \in BOOLEAN : AudioProcessorHandle(m, ok)
  \/ \E m \in bus : HandleDownloadComplete(m)
  \/ \E m \in bus : HandleDownloadFailed(m)
  \/ \E m \in bus : HandleTranscriptionComplete(m)
  \/ \E m \in bus : HandleTranscriptionFailed(m)
  \/ \E m \in bus : HandleAdDetectionComplete(m)
  \/ \E m \in bus : HandleAdDetectionFailed(m)
  \/ \E m \in bus : HandleAudioProcessingComplete(m)
  \/ \E m \in bus : HandleAudioProcessingFailed(m)

Spec == Init /\ [][Next]_vars

\* download(url) on its own: the HTTP GET and the upload succeed, and the
\* locked block adds the url to processed_files and saves; the handler that
\* called it has not gone on yet.
DownloaderDownloads(url) ==
  /\ url \in DOMAIN dl_handling
  /\ file_lock = {}
  /\ ~Exists(GenerateFilePath(url))
  /\ heavy' = Ran("http_get", url)
  /\ store' = Put(GenerateFilePath(url), "audio")
  /\ dl_processed_files' = dl_processed_files \cup {url}
  /\ dl_disk' = SaveProcessedFiles(dl_processed_files')
  /\ rss_disk' = SaveProcessedFiles(rss_feeds_processed)
  /\ UNCHANGED <<running, stops, bus, published, redelivered, web_vars, tr_vars, ad_vars>>
  /\ UNCHANGED <<dl_files_in_process, dl_handling>>
  /\ UNCHANGED <<rss_feeds_processed, file_lock, cached_podcast_info, rss_responses, unit_vars>>

\* _handle_download_request after download(url) has returned: the locked
\* removal from files_in_process and the DOWNLOAD_COMPLETE.
DownloaderReturns(url) ==
  /\ url \in DOMAIN dl_handling
  /\ file_lock = {}
  /\ url \in dl_processed_files /\ Exists(GenerateFilePath(url))
  /\ dl_files_in_process' = dl_files_in_process \ {url}
  /\ dl_handling' = Without(dl_handling, url)
  /\ Reply(dl_handling[url], "downloader", {DownloadComplete(dl_handling[url], url, GenerateFilePath(url))})
  /\ UNCHANGED <<running, stops, redelivered, web_vars, tr_vars, ad_vars, store, heavy>>
  /\ UNCHANGED <<dl_processed_files, dl_disk, rss_vars, unit_vars>>

\* The pipeline with the Downloader's successful download in its two steps.
LockNext ==
  \/ \E url \in DOMAIN dl_handling : DownloaderDownloads(url)
  \/ \E url \in DOMAIN dl_handling : DownloaderReturns(url)
  \/ Next

LockSpec == Init /\ [][LockNext]_vars

\* A handler that adds the key to processed_files only after its publish call.
NotRecordedAtPublish(processed_files, k) == processed_files

\* The success path of the Transcriber and the AdDetector when it reaches its
\* publish call: the block under the lock before it has added the key.
RecordedAtPublish(processed_files, k) == processed_files \cup {k}

\* The process of the Transcriber or the AdDetector dies at the publish call
\* that ends the successful handling of file_path, right before the message is
\* sent or right after, and is restarted as in Crash.
CrashAtPublish(c, file_path, sent) ==
  /\ c \in {"transcriber", "ad_detector"}
  /\ running[c]
  /\ stops < MaxStops
  /\ stops' = stops + 1
  /\ IF c = "transcriber"
     THEN /\ file_path \in DOMAIN tr_handling
          /\ LET m == tr_handling[file_path]
                 cached == Exists(TranscriptPath(file_path))
             IN /\ heavy' = IF cached THEN heavy ELSE Ran("recognize", file_path)
                /\ store' = IF cached THEN store ELSE Put(TranscriptPath(file_path), "transcript")
                /\ tr_disk' = SaveProcessedFiles(RecordedAtPublish(tr_processed_files, file_path))
                /\ Reply(m, "transcriber", IF sent THEN {TranscribeComplete(m, file_path)} ELSE {})
          /\ tr_processed_files' = LoadProcessedFiles(tr_disk')
          /\ tr_files_in_process' = {} /\ tr_handling' = EmptyMap
          /\ UNCHANGED ad_vars
     ELSE /\ file_path \in DOMAIN ad_handling
          /\ LET m == ad_handling[file_path]
                 transcript_path == Get(m.data, "transcript_path")
             IN /\ Exists(transcript_path)
                /\ heavy' = Ran("classify", file_path)
                /\ store' = Put(transcript_path, "transcript")
                /\ ad_disk' = SaveProcessedFiles(RecordedAtPublish(ad_processed_files, file_path))
                /\ Reply(m, "ad_detector",
                         IF sent THEN {AdDetectionComplete(m, file_path, transcript_path)} ELSE {})
          /\ ad_processed_files' = LoadProcessedFiles(ad_disk')
          /\ ad_files_in_process' = {} /\ ad_handling' = EmptyMap
          /\ UNCHANGED tr_vars
  /\ UNCHANGED <<running, redelivered, web_vars, dl_vars, rss_vars, unit_vars>>

\* The pipeline with worker processes that die and are restarted.
CrashNext ==
  \/ Next
  \/ \E c \in Workers : Crash(c)
  \/ \E url \in DOMAIN dl_handling : CrashAfterUpload(url)
  \/ \E c \in {"transcriber", "ad_detector"}, file_path \in DOMAIN tr_handling \cup DOMAIN ad_handling,
        sent \in BOOLEAN : CrashAtPublish(c, file_path, sent)
  \/ WebRestart

CrashSpec == Init /\ [][CrashNext]_vars

\* The feed requests: GET /rss calls on the front-end and RSS_DOWNLOAD_REQUEST
\* messages from clients of the broker, with a Downloader that may die.
RssRequestData ==
  {[rss_url |-> f] : f \in Feeds \cup {""}} \cup {[rss_url |-> f, base_url |-> BaseUrl] : f \in Feeds}
RssCorrelationIds == {Uuid4("rss", 1), None}

RssNext ==
  \/ \E c \in {"broker", "web", "downloader"} : Start(c)
  \/ \E rss_url \in Feeds \cup {""} : Rss(rss_url)
  \/ \E data \in RssRequestData, correlation_id \in RssCorrelationIds : RequestRss(data, correlation_id)
  \/ \E m \in bus, ok \in BOOLEAN, again \in BOOLEAN : DownloaderHandleRss(m, ok, again)
  \/ \E m \in bus : HandleRssDownloadComplete(m)
  \/ \E m \in bus : HandleRssDownloadFailed(m)
  \/ Crash("downloader")

RssSpec == Init /\ [][RssNext]_vars

\* The AdDetector at work on the transcripts a client submits, one request
\* with any transcript of the bounded set.
AdTranscripts == {Transcript(segments, Datetime("2025-02-28", 43200, 0)) : segments \in SegmentLists}

AdNext ==
  \/ \E c \in {"broker", "ad_detector"} : Start(c)
  \/ \E transcript \in AdTranscripts :
       RequestAdDetection(GenerateFilePath("https://ex.com/a.mp3"), transcript, Uuid4("request", 1))
  \/ \E m \in bus : AdDetectorHandle(m)
  \/ \E file_path \in DOMAIN ad_handling, writable \in BOOLEAN : AdDetectorDetect(file_path, writable)

AdSpec == Init /\ [][AdNext]_vars

\* The workers given requests that lack a required key, or carry it empty, by
\* clients of the broker, one request on each request topic, while workers are
\* started and stopped.
MalformedRequests ==
  {[topic |-> DOWNLOAD_REQUEST, data |-> data] :
     data \in {[url |-> ""], [file_path |-> GenerateFilePath("https://ex.com/a.mp3")]}}
  \cup {[topic |-> TRANSCRIBE_REQUEST, data |-> data] :
          data \in {[file_path |-> ""], [url |-> "https://ex.com/a.mp3"]}}
  \cup {[topic |-> topic, data |-> data] :
          topic \in {AD_DETECTION_REQUEST, AUDIO_PROCESSING_REQUEST},
          data \in {[file_path |-> GenerateFilePath("https://ex.com/a.mp3")],
                    [transcript_path |-> TranscriptPath(GenerateFilePath("https://ex.com/a.mp3"))],
                    [file_path |-> "",
                     transcript_path |-> TranscriptPath(GenerateFilePath("https://ex.com/a.mp3"))]}}

RequestMalformed(topic, data, correlation_id) ==
  /\ running["broker"]
  /\ \A p \in published : p.by = "client" => p.msg.topic # topic
  /\ Reply(PublishCall(data, correlation_id), "client", {Message(topic, data, correlation_id)})
  /\ UNCHANGED <<running, stops, redelivered, web_vars, dl_vars, tr_vars, ad_vars, rss_vars, unit_vars, store, heavy>>

MalformedNext ==
  \/ \E c \in Workers \cup {"broker"} : Start(c)
  \/ \E c \in Workers : Stop(c)
  \/ \E r \in MalformedRequests : RequestMalformed(r.topic, r.data, Uuid4("request", 1))
  \/ \E m \in bus : DownloaderHandle(m)
  \/ \E m \in bus : TranscriberHandle(m)
  \/ \E m \in bus : AdDetectorHandle(m)
  \/ \E m \in bus : AudioProcessorHandle(m, TRUE)

MalformedSpec == Init /\ [][MalformedNext]_vars

\* ------------------------------------------------------------------ InMemoryMessageBroker
\* The handlers a client may subscribe: one that returns, one that raises an
\* Exception, and one that answers a DOWNLOAD_REQUEST by publishing a
\* DOWNLOAD_COMPLETE on the same broker before it returns, as the workers do.
Handlers == {"returns", "raises", "publishes"}
BrokerTopics == {DOWNLOAD_REQUEST, DOWNLOAD_COMPLETE}
Raises(callback) == callback = "raises"
PublishesOn(callback, topic) == callback = "publishes" /\ topic = DOWNLOAD_REQUEST

mqtt_vars == <<callbacks, mqtt_running, loop_running, connection, subscribed, reconnects>>

BrokerFrame ==
  UNCHANGED <<running, stops, bus, published, redelivered, web_vars, dl_vars, tr_vars, ad_vars,
              rss_vars, transcript_files, call, store, heavy>>

\* Every handler of every topic (the filter on the topic left out).
HandlersOfAnyTopic(subs, topic) ==
  IF DOMAIN subs = {} THEN <<>>
  ELSE (IF DOWNLOAD_REQUEST \in DOMAIN subs THEN subs[DOWNLOAD_REQUEST] ELSE <<>>)
       \o (IF DOWNLOAD_COMPLETE \in DOMAIN subs THEN subs[DOWNLOAD_COMPLETE] ELSE <<>>)

\* `if message.topic in self.subscribers: for callback in self.subscribers[message.topic]`
HandlersOf(subs, topic) == IF topic \in DOMAIN subs THEN subs[topic] ELSE <<>>

\* A publish() that does not look at the running flag.
AcceptsAlways(is_running) == TRUE

\* `if not self.running: return`
Accepts(is_running) == is_running

\* A callback called outside a try statement: what it raises escapes.
Unguarded(raised) == raised

\* `try: callback(message) except Exception: logger.error(...)`: whether what the
\* callback raised escapes the statement.
Guarded(raised) == FALSE

\* Whether the loop of the publish() call at `depth` was left by an exception.
Escaped(log, depth) == \E k \in 1..Len(log) : log[k].depth = depth /\ log[k].escaped

\* The loop of publish() from the i-th handler of the topic on: the
\* invocations it makes, those of the publish() calls made by the handlers
\* included, in the order of the calls.
RECURSIVE Deliver(_, _, _, _)
Deliver(subs, topic, i, depth) ==
  IF i > Len(HandlersOf(subs, topic)) THEN <<>>
  ELSE LET callback == HandlersOf(subs, topic)[i]
           nested == IF PublishesOn(callback, topic)
                     THEN Deliver(subs, DOWNLOAD_COMPLETE, 1, depth + 1)
                     ELSE <<>>
           raised == Raises(callback) \/ Escaped(nested, depth + 1)
           entry == [callback |-> callback, topic |-> topic, index |-> i, depth |-> depth,
                     raised |-> raised, escaped |-> Guarded(raised)]
       IN <<entry>> \o nested
          \o (IF entry.escaped THEN <<>> ELSE Deliver(subs, topic, i + 1, depth))

\* A process builds one broker (run_services.py 108-117): the in-process broker
\* is called in the behaviours that leave the MQTT broker alone, and the
\* other way round.
ImCalled(c) ==
  /\ DOMAIN callbacks = {} /\ ~loop_running /\ reconnects = 0
  /\ Len(im_calls) < MaxCalls
  /\ im_calls' = Append(im_calls, c)

\* InMemoryMessageBroker.subscribe
ImSubscribe(topic, callback) ==
  /\ ImCalled([op |-> "subscribe", topic |-> topic, callback |-> callback, was_running |-> im_running])
  /\ subscribers' = With(subscribers, topic, Append(HandlersOf(subscribers, topic), callback))
  /\ UNCHANGED <<im_running, invocations, mqtt_vars>>
  /\ BrokerFrame

\* InMemoryMessageBroker.start
ImStart ==
  /\ ImCalled([op |-> "start", was_running |-> im_running])
  /\ im_running' = TRUE
  /\ UNCHANGED <<subscribers, invocations, mqtt_vars>>
  /\ BrokerFrame

\* InMemoryMessageBroker.stop
ImStop ==
  /\ ImCalled([op |-> "stop", was_running |-> im_running])
  /\ im_running' = FALSE
  /\ UNCHANGED <<subscribers, invocations, mqtt_vars>>
  /\ BrokerFrame

\* InMemoryMessageBroker.publish, from the call to its return: the handlers
\* run on the caller's thread.
ImPublish(topic) ==
  LET log == IF Accepts(im_running) THEN Deliver(subscribers, topic, 1, 0) ELSE <<>>
  IN /\ ImCalled([op |-> "publish", topic |-> topic, was_running |-> im_running,
                  outcome |-> IF Escaped(log, 0) THEN "raised" ELSE "returned"])
     /\ invocations' = log
     /\ UNCHANGED <<subscribers, im_running, mqtt_vars>>
     /\ BrokerFrame

\* The in-process broker under any sequence of at most MaxCalls calls.
ImNext ==
  \/ \E topic \in BrokerTopics, callback \in Handlers : ImSubscribe(topic, callback)
  \/ ImStart
  \/ ImStop
  \/ \E topic \in BrokerTopics : ImPublish(topic)

\* ------------------------------------------------------------------ MQTTMessageBroker
MqttHandlers == {"returns", "raises"}

MqttFrame ==
  /\ im_calls = <<>>
  /\ UNCHANGED <<subscribers, im_running, im_calls>>
  /\ BrokerFrame

\* A connect handler that subscribes nothing.
NoTopics(cbs) == {}

\* `for topic in list(self.callbacks.keys()): client.subscribe(topic)`
TopicsOf(cbs) == DOMAIN cbs

\* client.subscribe(topic) for the topics: the SUBSCRIBE packets go out on the
\* present connection, and the call is refused (MQTT_ERR_NO_CONN) without one.
ClientSubscribe(topics) ==
  IF connection \in {"connecting", "connected"} THEN subscribed \cup topics ELSE subscribed

\* MQTTMessageBroker.subscribe, called by the thread that starts and stops the
\* broker.
MqttSubscribe(topic, callback) ==
  /\ loop_running = mqtt_running
  /\ Len(HandlersOf(callbacks, topic)) < MaxHandlers
  /\ callbacks' = With(callbacks, topic, Append(HandlersOf(callbacks, topic), callback))
  /\ subscribed' = IF topic \notin DOMAIN callbacks /\ mqtt_running
                    THEN ClientSubscribe({topic})
                    ELSE subscribed
  /\ UNCHANGED <<mqtt_running, loop_running, connection, reconnects, invocations>>
  /\ MqttFrame

\* MQTTMessageBroker.start up to loop_start(): connect() sends CONNECT, the
\* SUBSCRIBE packets follow it, and the network loop thread is started.
MqttStart ==
  /\ ~loop_running /\ ~mqtt_running
  /\ connection' = "connecting"
  /\ subscribed' = DOMAIN callbacks
  /\ loop_running' = TRUE
  /\ UNCHANGED <<callbacks, mqtt_running, reconnects, invocations>>
  /\ MqttFrame

\* MQTTMessageBroker.start: `self.running = True`, with the network loop
\* thread already at work.
MqttStarted ==
  /\ loop_running /\ ~mqtt_running
  /\ mqtt_running' = TRUE
  /\ UNCHANGED <<callbacks, loop_running, connection, subscribed, reconnects, invocations>>
  /\ MqttFrame

\* MQTTMessageBroker.stop on a running broker: loop_stop() joins the network
\* loop thread, disconnect() closes the connection (its on_disconnect has rc 0).
MqttStop ==
  /\ mqtt_running
  /\ loop_running' = FALSE
  /\ connection' = "closed"
  /\ subscribed' = {}
  /\ mqtt_running' = FALSE
  /\ UNCHANGED <<callbacks, reconnects, invocations>>
  /\ MqttFrame

\* MQTTMessageBroker._on_connect, run by the network loop on a CONNACK.
OnConnect(rc) ==
  /\ loop_running /\ connection = "connecting"
  /\ IF rc = 0
     THEN /\ connection' = "connected"
          /\ subscribed' = subscribed \cup TopicsOf(callbacks)
     ELSE /\ connection' = "refused"
          /\ UNCHANGED subscribed
  /\ UNCHANGED <<callbacks, mqtt_running, loop_running, reconnects, invocations>>
  /\ MqttFrame

\* MQTTMessageBroker._on_disconnect with rc # 0, run by the network loop when
\* the connection is lost: the subscriptions go with the connection, and
\* client.reconnect() sends a new CONNECT or raises.
OnDisconnect(reconnected) ==
  /\ loop_running /\ connection # "closed"
  /\ reconnects < MaxReconnects
  /\ subscribed' = {}
  /\ IF mqtt_running
     THEN /\ reconnects' = reconnects + 1
          /\ connection' = IF reconnected THEN "connecting" ELSE "closed"
     ELSE /\ connection' = "closed"
          /\ UNCHANGED reconnects
  /\ UNCHANGED <<callbacks, mqtt_running, loop_running, invocations>>
  /\ MqttFrame

\* The network loop thread started by loop_start() connects again by itself
\* after a lost connection.
LoopReconnect ==
  /\ loop_running /\ connection = "closed"
  /\ connection' = "connecting"
  /\ UNCHANGED <<callbacks, mqtt_running, loop_running, subscribed, reconnects, invocations>>
  /\ MqttFrame

\* The loop of _on_message from the i-th callback of the topic on.
RECURSIVE OnMessageLoop(_, _, _)
OnMessageLoop(cbs, topic, i) ==
  IF i > Len(HandlersOf(cbs, topic)) THEN <<>>
  ELSE LET callback == HandlersOf(cbs, topic)[i]
           entry == [callback |-> callback, topic |-> topic, index |-> i, depth |-> 0,
                     raised |-> Raises(callback), escaped |-> Guarded(Raises(callback))]
       IN <<entry>> \o (IF entry.escaped THEN <<>> ELSE OnMessageLoop(cbs, topic, i + 1))

\* MQTTMessageBroker._on_message, run by the network loop for a message on a
\* subscribed topic whose payload is a JSON document or not.
OnMessage(topic, is_json) ==
  /\ loop_running /\ connection = "connected" /\ topic \in subscribed
  /\ invocations' = IF is_json THEN OnMessageLoop(callbacks, topic, 1) ELSE <<>>
  /\ UNCHANGED <<callbacks, mqtt_running, loop_running, connection, subscribed, reconnects>>
  /\ MqttFrame

MqttNext ==
  \/ \E topic \in BrokerTopics, callback \in MqttHandlers : MqttSubscribe(topic, callback)
  \/ MqttStart
  \/ MqttStarted
  \/ MqttStop
  \/ \E rc \in {0, 5} : OnConnect(rc)
  \/ \E reconnected \in BOOLEAN : OnDisconnect(reconnected)
  \/ LoopReconnect
  \/ \E topic \in BrokerTopics, is_json \in BOOLEAN : OnMessage(topic, is_json)

\* A broker of either kind under the calls of its clients and, for the MQTT
\* broker, the events of its connection.
BrokerNext ==
  \/ ImNext
  \/ MqttNext

BrokerSpec == Init /\ [][BrokerNext]_vars

\* The library functions called on their own, once each on a fresh object,
\* with every input of the bounded sets.
UnitNext ==
  \/ \E segments \in SegmentLists \cup {TestSegments} : CallMergeAdjacentAds(segments)
  \/ \E segments \in SegmentLists : CallGetAdBlocks(segments)
  \/ \E chunk \in UnitChunks, max_attempts \in 0..MaxAttempts : CallProcessChunk(chunk, max_attempts)
  \/ ProcessChunkAttempt
  \/ \E segments \in IntervalLists : CallMergeSegments(segments)
  \/ \E transcript \in Transcripts : CallToDictFromDict(transcript)

UnitSpec == Init /\ [][UnitNext]_vars

\* The happy path: every component is started before the first submission, no
\* heavy operation fails, nothing is redelivered and no worker is stopped.  Both
\* brokers run the callbacks of one worker one at a time (the in-process broker
\* on the publisher's thread, paho's client on its network loop thread), so a
\* worker takes its next request when its previous handler has returned.
AllRunning == \A c \in Components : running[c]

HappyStep ==
  \/ \E m \in bus : DOMAIN dl_handling = {} /\ DownloaderHandle(m)
  \/ \E url \in DOMAIN dl_handling : DownloaderFinish(url, TRUE)
  \/ \E m \in bus : DOMAIN tr_handling = {} /\ TranscriberHandle(m)
  \/ \E k \in DOMAIN tr_handling : TranscriberFinish(k, TRUE)
  \/ \E m \in bus : DOMAIN ad_handling = {} /\ AdDetectorHandle(m)
  \/ \E k \in DOMAIN ad_handling, outcome \in {"ads", "no_ads"} : AdDetectorFinish(k, outcome)
  \/ \E m \in bus : AudioProcessorHandle(m, TRUE)
  \/ \E m \in bus : HandleDownloadComplete(m)
  \/ \E m \in bus : HandleTranscriptionComplete(m)
  \/ \E m \in bus : HandleAdDetectionComplete(m)
  \/ \E m \in bus : HandleAudioProcessingComplete(m)

HappyNext ==
  \/ \E c \in Components : Start(c)
  \/ \E url \in URLs : AllRunning /\ Process(url)
  \/ HappyStep

HappySpec == Init /\ [][HappyNext]_vars /\ WF_vars(HappyStep)

\* ------------------------------------------------------------------ properties
\* The request ids /process can hand out.
RequestIds == {Uuid4("request", n) : n \in 1..MaxEvents}

\* What a step adds to the history of accepted messages.
NewlyPublished == published' \ published

\* The broker handed m to its subscriber in this step.
Handled(m, topic) == m \in bus /\ m \notin bus' /\ m.topic = topic

StepNames(r) == [i \in 1..Len(pending_requests[r].steps) |-> pending_requests[r].steps[i].name]
StagesInOrder == <<"submitted", "download", "transcription", "ad_detection", "audio_processing">>
IsPrefix(s, t) == Len(s) <= Len(t) /\ \A i \in 1..Len(s) : s[i] = t[i]
AllStepsCompleted(r) ==
  \A i \in 1..Len(pending_requests[r].steps) : pending_requests[r].steps[i].status = "completed"
LastStep(r) == pending_requests[r].steps[Len(pending_requests[r].steps)]

\* C1: every message of the flow that a /process call starts carries the
\* request id of that call as its correlation id: the DOWNLOAD_REQUEST the call
\* publishes carries the id of the RequestState it created (for the same URL),
\* and every message a handler publishes, whatever the component and whatever
\* the topic, carries the correlation id of the message being handled.
C1_CorrelationPreserved ==
  \A p \in published :
    /\ p.msg.topic \in RequestTopics \cup CompleteTopics \cup FailedTopics
    /\ p.msg.correlation_id = p.cause.correlation_id
    /\ p.cause.topic = HTTP_PROCESS =>
         /\ p.by = "web" /\ p.msg.topic = DOWNLOAD_REQUEST
         /\ p.msg.correlation_id \in DOMAIN pending_requests
         /\ pending_requests[p.msg.correlation_id].url = p.msg.data.url
    /\ p.cause.topic # HTTP_PROCESS => \E q \in published : q.msg = p.cause

\* One flow has gone through the front-end and the four workers.
C1_Witness ==
  \E r \in DOMAIN pending_requests :
    \A t \in RequestTopics \cup CompleteTopics :
      \E p \in published : p.msg.topic = t /\ p.msg.correlation_id = r

\* C2 (as stated): once the front-end has handled a DOWNLOAD_FAILED for R (R has
\* a failed download step), no TRANSCRIBE_REQUEST with correlation id R is
\* published any more.
C2_NoTranscribeAfterDownloadFailed ==
  [][\A r \in DOMAIN pending_requests :
       (\E i \in 1..Len(pending_requests[r].steps) :
          /\ pending_requests[r].steps[i].name = "download"
          /\ pending_requests[r].steps[i].status = "failed")
       => \A p \in NewlyPublished :
            ~(p.msg.topic = TRANSCRIBE_REQUEST /\ p.msg.correlation_id = r)]_vars

\* C3 (as stated): a RequestState whose status is "failed" keeps that status.
C3_FailedIsStable ==
  [][\A r \in DOMAIN pending_requests :
       pending_requests[r].status = "failed" => pending_requests'[r].status = "failed"]_vars

\* C4: on the happy path every request that /process accepts for processing
\* eventually has status "completed", the five steps submitted, download,
\* transcription, ad_detection, audio_processing, each completed, and a
\* download_url in the last step that names a file id of file_mappings.
Completed(r) ==
  /\ r \in DOMAIN pending_requests
  /\ pending_requests[r].status = "completed"
  /\ StepNames(r) = StagesInOrder
  /\ AllStepsCompleted(r)
  /\ \E file_id \in DOMAIN file_mappings : LastStep(r).download_url = DownloadUrl(file_id)

C4_HappyPathCompletes ==
  \A r \in RequestIds : (r \in DOMAIN pending_requests) ~> Completed(r)

C4_Witness == \E r \in DOMAIN pending_requests : Completed(r)

\* C5: with several requests in the pipeline at once and nothing failing, the
\* steps of every request are at all times a prefix of submitted, download,
\* transcription, ad_detection, audio_processing, all completed; a step is
\* added to a RequestState only by the handling of a message that carries that
\* request's id; and every request gets to "completed" with the five steps.
C5_ConcurrentRequests ==
  /\ [](\A r \in DOMAIN pending_requests :
          IsPrefix(StepNames(r), StagesInOrder) /\ AllStepsCompleted(r))
  /\ [][\A r \in DOMAIN pending_requests :
          pending_requests'[r] # pending_requests[r]
          => \E m \in bus \ bus' : m.correlation_id = r]_vars
  /\ \A r \in RequestIds :
       (r \in DOMAIN pending_requests)
         ~> /\ r \in DOMAIN pending_requests
            /\ pending_requests[r].status = "completed"
            /\ StepNames(r) = StagesInOrder

\* Two requests for different URLs are in the pipeline together: one is
\* completed while the other, past its download, is still being processed.
C5_Witness ==
  \E r1, r2 \in DOMAIN pending_requests :
    /\ pending_requests[r1].url # pending_requests[r2].url
    /\ Completed(r1)
    /\ pending_requests[r2].status = "processing"
    /\ Len(pending_requests[r2].steps) >= 3

\* C6: a next-stage request for R is published only by the front-end and only
\* while it handles the completion of the stage before, for the same R.
PreviousStage(topic) ==
  CASE topic = TRANSCRIBE_REQUEST -> DOWNLOAD_COMPLETE
    [] topic = AD_DETECTION_REQUEST -> TRANSCRIBE_COMPLETE
    [] topic = AUDIO_PROCESSING_REQUEST -> AD_DETECTION_COMPLETE

C6_LinearProgress ==
  \A p \in published :
    p.msg.topic \in {TRANSCRIBE_REQUEST, AD_DETECTION_REQUEST, AUDIO_PROCESSING_REQUEST} =>
      /\ p.by = "web"
      /\ p.cause.topic = PreviousStage(p.msg.topic)
      /\ p.cause.correlation_id = p.msg.correlation_id

C6_Witness ==
  \E p \in published : p.msg.topic = AUDIO_PROCESSING_REQUEST /\ p.by = "web"

\* What the handling of request m by worker `by` must come to when it
\* short-circuits: m is answered by exactly one message, on `topic`, with
\* `data` and m's correlation id, and it is delivered to the bus.
AnsweredOnceWith(m, by, topic, data) ==
  /\ Cardinality(NewlyPublished) = 1
  /\ \A p \in NewlyPublished :
       /\ p.by = by /\ p.cause = m
       /\ p.msg.topic = topic
       /\ p.msg.data = data
       /\ p.msg.correlation_id = m.correlation_id
       /\ p.msg \in bus'

\* C7: a running Downloader that handles a DOWNLOAD_REQUEST for a URL of
\* processed_files whose blob podcasts/md5(url) exists answers with exactly one
\* DOWNLOAD_COMPLETE {url, file_path, already_processed = true} under the
\* request's correlation id, makes no HTTP GET (neither in the handler nor
\* later: no download is left running), and leaves processed_files,
\* files_in_process and the store as they are.
C7_DownloaderShortCircuit ==
  [][\A m \in bus : \A url \in URLs :
       ( /\ Handled(m, DOWNLOAD_REQUEST) /\ Get(m.data, "url") = url
         /\ running["downloader"]
         /\ url \in dl_processed_files
         /\ GenerateFilePath(url) \in DOMAIN store )
       => /\ AnsweredOnceWith(m, "downloader", DOWNLOAD_COMPLETE,
                              [url |-> url, file_path |-> GenerateFilePath(url),
                               already_processed |-> TRUE])
          /\ heavy' = heavy /\ store' = store
          /\ UNCHANGED dl_vars]_vars

\* The Downloader has short-circuited a request for a URL it fetched once.
C7_Witness ==
  \E p \in published :
    /\ p.by = "downloader" /\ p.msg.topic = DOWNLOAD_COMPLETE
    /\ "already_processed" \in DOMAIN p.msg.data
    /\ Count("http_get", p.msg.data.url) = 1

\* The Transcriber has answered a request for file_path with a plain
\* TRANSCRIBE_COMPLETE: the request was handled successfully.
TranscribedBefore(file_path) ==
  \E p \in published :
    /\ p.by = "transcriber" /\ p.msg.topic = TRANSCRIBE_COMPLETE
    /\ p.msg.data.file_path = file_path

TranscriberShortCircuits(m, file_path) ==
  /\ AnsweredOnceWith(m, "transcriber", TRANSCRIBE_COMPLETE,
                      [file_path |-> file_path, transcript_path |-> TranscriptPath(file_path),
                       already_processed |-> TRUE])
  /\ heavy' = heavy /\ store' = store
  /\ UNCHANGED tr_vars

\* C8 (as stated): after a transcription request for K was handled
\* successfully, the handling of every later TRANSCRIBE_REQUEST for K publishes
\* exactly one TRANSCRIBE_COMPLETE {file_path = K, transcript_path =
\* K.transcript.json, already_processed = true} and the recognizer is not run.
C8_TranscriberIdempotentAlways ==
  [][\A m \in bus :
       (Handled(m, TRANSCRIBE_REQUEST) /\ TranscribedBefore(Get(m.data, "file_path")))
       => TranscriberShortCircuits(m, Get(m.data, "file_path"))]_vars

\* C8 (amended): the same, for the requests handled while the Transcriber is
\* running.
C8_TranscriberIdempotent ==
  [][\A m \in bus :
       ( /\ Handled(m, TRANSCRIBE_REQUEST) /\ TranscribedBefore(Get(m.data, "file_path"))
         /\ running["transcriber"] )
       => TranscriberShortCircuits(m, Get(m.data, "file_path"))]_vars

\* The Transcriber has short-circuited a request for a file it transcribed once.
C8_Witness ==
  \E p \in published :
    /\ p.by = "transcriber" /\ p.msg.topic = TRANSCRIBE_COMPLETE
    /\ "already_processed" \in DOMAIN p.msg.data
    /\ Count("recognize", p.msg.data.file_path) = 1

\* C9: a running AdDetector that handles an AD_DETECTION_REQUEST {file_path,
\* transcript_path} for a file_path of processed_files answers with exactly one
\* AD_DETECTION_COMPLETE {file_path, transcript_path, already_processed = true}
\* under the request's correlation id, does not run the classifier and does
\* not write the transcript (nor anything else).
C9_AdDetectorIdempotent ==
  [][\A m \in bus :
       ( /\ Handled(m, AD_DETECTION_REQUEST)
         /\ running["ad_detector"]
         /\ Truthy(Get(m.data, "file_path")) /\ Truthy(Get(m.data, "transcript_path"))
         /\ Get(m.data, "file_path") \in ad_processed_files )
       => /\ AnsweredOnceWith(m, "ad_detector", AD_DETECTION_COMPLETE,
                              [file_path |-> m.data.file_path,
                               transcript_path |-> m.data.transcript_path,
                               already_processed |-> TRUE])
          /\ heavy' = heavy /\ store' = store
          /\ UNCHANGED ad_vars]_vars

\* The AdDetector has short-circuited a request for a file it classified once.
C9_Witness ==
  \E p \in published :
    /\ p.by = "ad_detector" /\ p.msg.topic = AD_DETECTION_COMPLETE
    /\ "already_processed" \in DOMAIN p.msg.data
    /\ Count("classify", p.msg.data.file_path) = 1

\* C10 (as stated): a running AudioProcessor that handles an
\* AUDIO_PROCESSING_REQUEST for a file_path it has processed before (it has
\* published an AUDIO_PROCESSING_COMPLETE for that input) answers with exactly
\* one AUDIO_PROCESSING_COMPLETE with already_processed = true and does not
\* render again.
C10_AudioProcessorDuplicatePrevention ==
  [][\A m \in bus :
       ( /\ Handled(m, AUDIO_PROCESSING_REQUEST)
         /\ running["audio_processor"]
         /\ \E p \in published :
              /\ p.by = "audio_processor" /\ p.msg.topic = AUDIO_PROCESSING_COMPLETE
              /\ p.msg.data.input_path = Get(m.data, "file_path") )
       => /\ Cardinality(NewlyPublished) = 1
          /\ \A p \in NewlyPublished :
               /\ p.msg.topic = AUDIO_PROCESSING_COMPLETE
               /\ "already_processed" \in DOMAIN p.msg.data
               /\ p.msg.data.already_processed = TRUE
          /\ heavy' = heavy]_vars

\* C11: a running Downloader that handles a DOWNLOAD_REQUEST for a URL of
\* files_in_process for which the short-circuit test fails answers with
\* exactly one DOWNLOAD_FAILED {url, error = "File is already being
\* downloaded"} under that request's correlation id, starts no download (no
\* HTTP GET, no further handler inside download()), and leaves
\* files_in_process, processed_files and the store as they are.
C11_DownloaderInFlightDuplicate ==
  [][\A m \in bus : \A url \in URLs :
       ( /\ Handled(m, DOWNLOAD_REQUEST) /\ Get(m.data, "url") = url
         /\ running["downloader"]
         /\ url \in dl_files_in_process
         /\ ~(url \in dl_processed_files /\ GenerateFilePath(url) \in DOMAIN store) )
       => /\ AnsweredOnceWith(m, "downloader", DOWNLOAD_FAILED,
                              [url |-> url, error |-> "File is already being downloaded"])
          /\ heavy' = heavy /\ store' = store
          /\ UNCHANGED dl_vars]_vars

\* The Downloader has refused a request for a URL it was downloading.
C11_Witness ==
  \E p \in published :
    /\ p.by = "downloader" /\ p.msg.topic = DOWNLOAD_FAILED
    /\ p.msg.data.error = "File is already being downloaded"
    /\ "url" \in DOMAIN p.msg.data

\* C12 (as stated): a running AdDetector that handles an AD_DETECTION_REQUEST
\* for a file_path of files_in_process that is not in processed_files
\* publishes exactly one message, carrying file_path and the request's
\* correlation id (on the in-progress topic), and leaves files_in_process and
\* processed_files as they are.
C12_AdDetectorInProgress ==
  [][\A m \in bus :
       ( /\ Handled(m, AD_DETECTION_REQUEST)
         /\ running["ad_detector"]
         /\ Truthy(Get(m.data, "file_path")) /\ Truthy(Get(m.data, "transcript_path"))
         /\ Get(m.data, "file_path") \in ad_files_in_process
         /\ Get(m.data, "file_path") \notin ad_processed_files )
       => /\ Cardinality(NewlyPublished) = 1
          /\ \A p \in NewlyPublished :
               /\ p.by = "ad_detector"
               /\ Get(p.msg.data, "file_path") = m.data.file_path
               /\ p.msg.correlation_id = m.correlation_id
               /\ p.msg.topic \notin RequestTopics \cup CompleteTopics \cup FailedTopics
          /\ UNCHANGED <<ad_files_in_process, ad_processed_files>>]_vars

\* The handler that accepted a request for key k returns in this step.
Returns(handling, k) == k \in DOMAIN handling /\ k \notin DOMAIN handling'

\* The step publishes no message on `topic`.
NoneOn(topic) == \A p \in NewlyPublished : p.msg.topic # topic

\* Request m is answered by exactly one message, on the failure topic, with an
\* error string and m's correlation id.
FailedOnce(m, by, topic) ==
  /\ Cardinality(NewlyPublished) = 1
  /\ \A p \in NewlyPublished :
       /\ p.by = by /\ p.cause = m
       /\ p.msg.topic = topic
       /\ Truthy(Get(p.msg.data, "error"))
       /\ p.msg.correlation_id = m.correlation_id
       /\ p.msg \in bus'

\* C13: whenever the processing of an accepted request does not succeed (the
\* handler returns without a _COMPLETE: download, recognition, transcript
\* load, classification or rendering raised), the worker publishes exactly one
\* matching _FAILED with an error string and the request's correlation id, the
\* key is removed from files_in_process and is not added to processed_files,
\* so that it is in neither set when the handler has returned.
C13_ErrorPropagation ==
  [][/\ \A url \in DOMAIN dl_handling :
          (Returns(dl_handling, url) /\ NoneOn(DOWNLOAD_COMPLETE))
          => /\ FailedOnce(dl_handling[url], "downloader", DOWNLOAD_FAILED)
             /\ url \notin dl_files_in_process' /\ url \notin dl_processed_files'
             /\ dl_processed_files' = dl_processed_files /\ dl_disk' = dl_disk
     /\ \A k \in DOMAIN tr_handling :
          (Returns(tr_handling, k) /\ NoneOn(TRANSCRIBE_COMPLETE))
          => /\ FailedOnce(tr_handling[k], "transcriber", TRANSCRIBE_FAILED)
             /\ k \notin tr_files_in_process' /\ k \notin tr_processed_files'
             /\ tr_processed_files' = tr_processed_files /\ tr_disk' = tr_disk
     /\ \A k \in DOMAIN ad_handling :
          (Returns(ad_handling, k) /\ NoneOn(AD_DETECTION_COMPLETE))
          => /\ FailedOnce(ad_handling[k], "ad_detector", AD_DETECTION_FAILED)
             /\ k \notin ad_files_in_process' /\ k \notin ad_processed_files'
             /\ ad_processed_files' = ad_processed_files /\ ad_disk' = ad_disk
     /\ \A m \in bus :
          ( /\ Handled(m, AUDIO_PROCESSING_REQUEST) /\ running["audio_processor"]
            /\ NoneOn(AUDIO_PROCESSING_COMPLETE) )
          => FailedOnce(m, "audio_processor", AUDIO_PROCESSING_FAILED)]_vars

\* A download failed and the retry was processed afresh (a second HTTP GET).
C13_Witness ==
  /\ \E url \in URLs :
       /\ Count("http_get", url) = 2
       /\ \E p \in published :
            /\ p.msg.topic = DOWNLOAD_FAILED /\ Get(p.msg.data, "url") = url
            /\ p.msg.data.error # "File is already being downloaded"

\* C14 (as stated): whenever the Downloader publishes a DOWNLOAD_COMPLETE for a
\* URL, that URL is in processed_files and in the persisted list at that
\* moment, also when the blob was left by an instance that died before it
\* recorded the URL.
C14_CompleteImpliesProcessed ==
  [][\A p \in NewlyPublished :
       (p.by = "downloader" /\ p.msg.topic = DOWNLOAD_COMPLETE)
       => /\ p.msg.data.url \in dl_processed_files'
          /\ p.msg.data.url \in LoadProcessedFiles(dl_disk')]_vars

\* What a restart of worker c must come to: every key of its processed set,
\* added and persisted before, is in the set the fresh instance loads, and the
\* fresh instance's files_in_process is empty.
Restarted(c) ==
  /\ c = "downloader" => (dl_processed_files \subseteq dl_processed_files' /\ dl_files_in_process' = {})
  /\ c = "transcriber" => (tr_processed_files \subseteq tr_processed_files' /\ tr_files_in_process' = {})
  /\ c = "ad_detector" => (ad_processed_files \subseteq ad_processed_files' /\ ad_files_in_process' = {})

C16_UnknownCorrelationIgnored ==
  [][\A m \in bus :
       ( /\ m.topic \in CompleteTopics /\ m \notin bus'
         /\ m.correlation_id \notin DOMAIN pending_requests )
       => /\ UNCHANGED <<pending_requests, file_mappings, url_to_file>>
          /\ \A p \in NewlyPublished : p.msg.topic \notin RequestTopics]_vars

\* Request r has reached "completed": its audio_processing step is completed.
HasCompleted(r) ==
  \E i \in 1..Len(pending_requests[r].steps) :
    /\ pending_requests[r].steps[i].name = "audio_processing"
    /\ pending_requests[r].steps[i].status = "completed"

\* C17: once a /process request for a URL has reached "completed" (its output
\* exists in the store), every later GET /process for that URL is answered
\* with 200 and the cleaned file, publishes nothing and leaves the request
\* table as it is.
C17_CacheHit ==
  [][\A url \in URLs :
       ( /\ Len(responses') = Len(responses) + 1
         /\ responses'[Len(responses')].url = url
         /\ \E r \in DOMAIN pending_requests : pending_requests[r].url = url /\ HasCompleted(r) )
       => /\ responses'[Len(responses')].code = 200
          /\ responses'[Len(responses')].body \in {file_mappings[f] : f \in DOMAIN file_mappings}
          /\ Exists(responses'[Len(responses')].body)
          /\ NewlyPublished = {} /\ bus' = bus
          /\ pending_requests' = pending_requests]_vars

\* A /process call was answered from the cache.
C17_Witness == \E i \in 1..Len(responses) : responses[i].code = 200

\* Request m was dispatched by the front-end for a _COMPLETE message it had
\* handled before (a duplicate), and the request dispatched the first time has
\* been answered with a _COMPLETE.
Redispatched(m) ==
  \E p, q \in published :
    /\ q.msg = m /\ q.by = "web" /\ p.by = "web"
    /\ p.cause = q.cause /\ p.cause.topic \in CompleteTopics
    /\ p.msg.message_id[3] < q.msg.message_id[3]
    /\ \E a \in published : a.cause = p.msg /\ a.msg.topic \in CompleteTopics

StageOf(topic) ==
  CASE topic = TRANSCRIBE_REQUEST -> [worker |-> "transcriber", complete |-> TRANSCRIBE_COMPLETE]
    [] topic = AD_DETECTION_REQUEST -> [worker |-> "ad_detector", complete |-> AD_DETECTION_COMPLETE]
    [] topic = AUDIO_PROCESSING_REQUEST -> [worker |-> "audio_processor", complete |-> AUDIO_PROCESSING_COMPLETE]

\* C18 (as stated): the request that the front-end dispatches again for a
\* duplicate _COMPLETE is answered by the next worker, when that worker is
\* running and has completed the first request, with exactly one _COMPLETE
\* flagged already_processed, and the heavy work is not run a second time.
C18_DuplicateCompleteShortCircuits ==
  [][\A m \in bus :
       ( /\ m.topic \in {TRANSCRIBE_REQUEST, AD_DETECTION_REQUEST, AUDIO_PROCESSING_REQUEST}
         /\ m \notin bus'
         /\ running[StageOf(m.topic).worker]
         /\ Redispatched(m) )
       => /\ Cardinality(NewlyPublished) = 1
          /\ \A p \in NewlyPublished :
               /\ p.msg.topic = StageOf(m.topic).complete
               /\ "already_processed" \in DOMAIN p.msg.data
               /\ p.msg.correlation_id = m.correlation_id
          /\ heavy' = heavy]_vars

\* ------------------------------------------------------------------ C19
\* C19 (as stated): a GET /rss?url=FEED for a FEED that is not in the cache
\* is answered 200 and leaves FEED in the cache; a GET for a FEED that is in
\* the cache is answered 200 with the feed built from the cached podcast
\* info, and no feed is fetched for it.
C19_RssCaching ==
  [][\A rss_url \in Feeds :
       Rss(rss_url) =>
         LET response == rss_responses'[Len(rss_responses')]
         IN /\ response.code = 200
            /\ rss_url \in DOMAIN cached_podcast_info'
            /\ rss_url \in DOMAIN cached_podcast_info =>
                 /\ response.body = GenerateRssXml(cached_podcast_info[rss_url])
                 /\ heavy' = heavy]_vars

\* ------------------------------------------------------------------ C20
\* C20 (as stated): a running Downloader that handles an RSS_DOWNLOAD_REQUEST
\* with a non-empty rss_url publishes exactly one message for it, an
\* RSS_DOWNLOAD_COMPLETE or an RSS_DOWNLOAD_FAILED with the request's
\* correlation id, and its lock is free when the handler is done; for the
\* first request for a feed and for a repeated one alike.
C20_RssRequestAnswered ==
  [][\A m \in bus :
       ( /\ Handled(m, RSS_DOWNLOAD_REQUEST)
         /\ running["downloader"]
         /\ Truthy(Get(m.data, "rss_url")) )
       => /\ Cardinality(NewlyPublished) = 1
          /\ \A p \in NewlyPublished :
               /\ p.by = "downloader" /\ p.cause = m
               /\ p.msg.topic \in {RSS_DOWNLOAD_COMPLETE, RSS_DOWNLOAD_FAILED}
               /\ p.msg.correlation_id = m.correlation_id
          /\ file_lock' = {}]_vars

\* ------------------------------------------------------------------ C21
\* C21 (as stated): after _merge_adjacent_ads, between two segments i < k that
\* are both marked as ads every segment j is marked as an ad or is followed by
\* a pause of more than 5 seconds (start[j+1] - end[j] > 5).
C21_AdBlockMonotonicity ==
  call.fn = "_merge_adjacent_ads" =>
    LET segments == call.result
    IN \A i, k \in 1..Len(segments) :
         (i < k /\ segments[i].is_ad /\ segments[k].is_ad) =>
           \A j \in (i + 1)..(k - 1) :
             segments[j].is_ad \/ segments[j + 1].start - segments[j].end > TimeGap

\* ------------------------------------------------------------------ C22
\* C22 (as stated): after _merge_adjacent_ads every segment whose lowercased
\* text contains a transition phrase is marked as an ad, whatever the
\* classifier marked, also when it marked nothing.
C22_TransitionPhraseMarked ==
  call.fn = "_merge_adjacent_ads" =>
    \A i \in 1..Len(call.result) :
      HasTransitionPhrase(call.result[i].text) => call.result[i].is_ad

\* ------------------------------------------------------------------ C23
\* C23: the intervals _merge_segments returns are sorted by start, pairwise
\* disjoint, each at least min_duration long, and two consecutive ones are
\* more than max_gap apart.
C23_CutSetWellFormed ==
  call.fn = "_merge_segments" =>
    LET merged == call.result
    IN /\ \A i \in 1..Len(merged) : merged[i][2] - merged[i][1] >= MinDuration
       /\ \A i \in 1..(Len(merged) - 1) :
            /\ merged[i][1] <= merged[i + 1][1]
            /\ merged[i + 1][1] - merged[i][2] > MaxGap
       /\ \A i, k \in 1..Len(merged) :
            i < k => merged[i][2] <= merged[k][1] \/ merged[k][2] <= merged[i][1]

\* Three intervals given out of order, of which two are merged into one, and
\* two intervals are returned.
C23_Witness ==
  /\ call.fn = "_merge_segments"
  /\ Len(call.args) = 3 /\ Len(call.result) = 2
  /\ call.args # Sorted(call.args)
  /\ \E k \in 1..2 : \A i \in 1..3 : call.args[i] # call.result[k]

\* ------------------------------------------------------------------ C26
\* C26: from_dict(to_dict(T)) has the segments of T (id, text, start, end and
\* is_ad, in the same order) and the processed_at of T, and serializing it
\* again gives the same document.
C26_TranscriptRoundTrip ==
  call.fn = "to_dict/from_dict" =>
    /\ Len(call.result.segments) = Len(call.args.segments)
    /\ \A i \in 1..Len(call.args.segments) :
         /\ call.result.segments[i].id = call.args.segments[i].id
         /\ call.result.segments[i].text = call.args.segments[i].text
         /\ call.result.segments[i].start = call.args.segments[i].start
         /\ call.result.segments[i].end = call.args.segments[i].end
         /\ call.result.segments[i].is_ad = call.args.segments[i].is_ad
    /\ call.result.processed_at = call.args.processed_at
    /\ call.again = call.dict

\* A transcript of three segments, one of them an ad, stamped with a time
\* that has microseconds.
C26_Witness ==
  /\ call.fn = "to_dict/from_dict"
  /\ Len(call.args.segments) = 3
  /\ \E i, k \in 1..3 : call.result.segments[i].is_ad /\ ~call.result.segments[k].is_ad
  /\ call.args.processed_at.microsecond # 0
  /\ Len(call.dict.processed_at) = 5

\* ------------------------------------------------------------------ C24
\* C24: when the classifier gives up on one or more chunks of a transcript
\* that can be read and written, the AdDetector still sends every chunk of the
\* transcript to the classifier, writes the transcript back and publishes
\* exactly one message for the request, an AD_DETECTION_COMPLETE.
C24_PartialFailureCompletes ==
  [][\A file_path \in DOMAIN ad_handling :
       ( /\ AdDetectorDetect(file_path, TRUE)
         /\ ad_handling[file_path].data.transcript_path \in DOMAIN transcript_files
         /\ call'.fn = "detect_ads"
         /\ call'.errors # {} )
       => LET m == ad_handling[file_path]
              chunks == CreateChunks(call'.args)
          IN /\ Cardinality(NewlyPublished) = 1
             /\ \A p \in NewlyPublished :
                  /\ p.by = "ad_detector" /\ p.cause = m
                  /\ p.msg.topic = AD_DETECTION_COMPLETE
                  /\ p.msg.correlation_id = m.correlation_id
             /\ transcript_files'[m.data.transcript_path] = ToDict(call'.result)
             /\ file_path \in ad_processed_files'
             /\ \A c \in 1..Len(chunks) :
                  LET k == <<"chat_completion", <<file_path, chunks[c].chunk_id>>>>
                  IN k \in DOMAIN heavy' /\ (k \in DOMAIN heavy => heavy'[k] > heavy[k])]_vars

\* The classifier gave up on the first of two chunks and marked an ad in the
\* second; the request was answered with AD_DETECTION_COMPLETE.
C24_Witness ==
  /\ call.fn = "detect_ads"
  /\ Len(call.results) = 2
  /\ call.results[1].error # None /\ call.results[2].error = None
  /\ call.errors # {}
  /\ \E i \in 1..Len(call.results[2].segments) :
       call.results[2].segments[i].is_ad /\ ~call.args.segments[ChunkSize + i].is_ad
  /\ \E p \in published : p.msg.topic = AD_DETECTION_COMPLETE /\ p.by = "ad_detector"

\* ------------------------------------------------------------------ C25
\* The request topic of a worker, the topic of its failure message and the
\* keys its requests must carry.
RequestTopic(w) ==
  CASE w = "downloader" -> DOWNLOAD_REQUEST
    [] w = "transcriber" -> TRANSCRIBE_REQUEST
    [] w = "ad_detector" -> AD_DETECTION_REQUEST
    [] w = "audio_processor" -> AUDIO_PROCESSING_REQUEST

FailedTopic(w) ==
  CASE w = "downloader" -> DOWNLOAD_FAILED
    [] w = "transcriber" -> TRANSCRIBE_FAILED
    [] w = "ad_detector" -> AD_DETECTION_FAILED
    [] w = "audio_processor" -> AUDIO_PROCESSING_FAILED

RequiredKeys(w) ==
  CASE w = "downloader" -> {"url"}
    [] w = "transcriber" -> {"file_path"}
    [] w = "ad_detector" -> {"file_path", "transcript_path"}
    [] w = "audio_processor" -> {"file_path", "transcript_path"}

MissesRequiredKey(m, w) == \E key \in RequiredKeys(w) : ~Truthy(Get(m.data, key))

\* The handler of w rejects m: exactly one message is published, the failure
\* message of w with an error string and the correlation id of m, and the
\* processed and in-flight sets of the workers are unchanged.
Rejects(w, m) ==
  /\ Cardinality(NewlyPublished) = 1
  /\ \A p \in NewlyPublished :
       /\ p.by = w /\ p.cause = m
       /\ p.msg.topic = FailedTopic(w)
       /\ Truthy(Get(p.msg.data, "error"))
       /\ p.msg.correlation_id = m.correlation_id
  /\ UNCHANGED <<dl_processed_files, dl_files_in_process, tr_processed_files, tr_files_in_process,
                 ad_processed_files, ad_files_in_process>>

\* C25 (as stated): every handling of a DOWNLOAD_REQUEST without url, a
\* TRANSCRIBE_REQUEST without file_path, or an AD_DETECTION_REQUEST or
\* AUDIO_PROCESSING_REQUEST without file_path or transcript_path publishes
\* exactly one matching *_FAILED message with an error string and the request's
\* correlation id and leaves the processed and in-flight sets unchanged.
C25_MalformedRejectedAlways ==
  [][\A m \in bus : \A w \in Workers :
       (Handled(m, RequestTopic(w)) /\ MissesRequiredKey(m, w)) => Rejects(w, m)]_vars

\* C25 (amended): the same, for the requests handled while the worker is
\* running.
C25_MalformedRejected ==
  [][\A m \in bus : \A w \in Workers :
       (Handled(m, RequestTopic(w)) /\ MissesRequiredKey(m, w) /\ running[w]) => Rejects(w, m)]_vars

\* Each of the four workers has rejected a request that lacks a required key.
C25_Witness ==
  \A w \in Workers :
    \E p \in published :
      /\ p.by = w /\ p.msg.topic = FailedTopic(w)
      /\ p.cause.topic = RequestTopic(w) /\ MissesRequiredKey(p.cause, w)
      /\ p.msg.correlation_id = p.cause.correlation_id

\* ------------------------------------------------------------------ C27
\* The step is a call on the in-process broker; its record in the history.
ImCallStep == Len(im_calls') = Len(im_calls) + 1
LastCall == im_calls'[Len(im_calls')]
PublishStep(topic) == ImCallStep /\ LastCall.op = "publish" /\ LastCall.topic = topic

\* The callbacks the subscribe calls made so far gave for the topic, in the
\* order of the calls.
SubscriptionsBefore(topic) ==
  LET calls == SelectSeq(im_calls, LAMBDA c : c.op = "subscribe" /\ c.topic = topic)
  IN [k \in 1..Len(calls) |-> calls[k].callback]

\* The invocations made by the publish() call itself, not by the publish()
\* calls of the handlers.
TopLevel(log) == SelectSeq(log, LAMBDA e : e.depth = 0)
CallbacksOf(log) == [k \in 1..Len(log) |-> log[k].callback]

\* C27: a publish(msg) on a started in-process broker invokes, before it
\* returns, the handlers subscribed to msg.topic before the call, once per
\* subscription and in subscription order, and no handler of another topic; a
\* handler of another topic runs only inside the publish() call a handler
\* makes on that topic, and then as one of that topic's subscriptions.
C27_InMemoryDelivery ==
  [][\A topic \in BrokerTopics :
       (PublishStep(topic) /\ im_running)
       => LET log == invocations'
              top == TopLevel(log)
          IN /\ CallbacksOf(top) = SubscriptionsBefore(topic)
             /\ \A k \in 1..Len(top) : top[k].topic = topic /\ top[k].index = k
             /\ \A k \in 1..Len(log) :
                  log[k].depth > 0
                  => /\ log[k].topic = DOWNLOAD_COMPLETE
                     /\ log[k].index \in 1..Len(SubscriptionsBefore(DOWNLOAD_COMPLETE))
                     /\ log[k].callback = SubscriptionsBefore(DOWNLOAD_COMPLETE)[log[k].index]]_vars

\* A publish on a started broker ran the two handlers of the topic in order;
\* the handler of the other topic ran inside the publish() of the first.
C27_Witness ==
  /\ Len(im_calls) > 0
  /\ im_calls[Len(im_calls)].op = "publish" /\ im_calls[Len(im_calls)].was_running
  /\ Len(invocations) = 3
  /\ invocations[1].callback = "publishes" /\ invocations[1].depth = 0
  /\ invocations[2].depth = 1 /\ invocations[2].topic = DOWNLOAD_COMPLETE
  /\ invocations[3].callback # "publishes" /\ invocations[3].depth = 0 /\ invocations[3].index = 2

\* ------------------------------------------------------------------ C28
\* How many subscribe calls for the topic are among the first k calls.
SubscriptionIndex(topic, k) ==
  Cardinality({j \in 1..k : im_calls[j].op = "subscribe" /\ im_calls[j].topic = topic})

\* C28: a publish on an in-process broker that is not started, or stopped,
\* invokes no handler and changes no subscription; start() and stop() change no
\* subscription; and a publish on the started broker invokes the handlers that
\* were subscribed to the topic while the broker was not running.
C28_InMemoryGating ==
  [][/\ \A topic \in BrokerTopics :
          (PublishStep(topic) /\ ~im_running)
          => invocations' = <<>> /\ subscribers' = subscribers
     /\ (ImCallStep /\ LastCall.op \in {"start", "stop"}) => subscribers' = subscribers
     /\ \A topic \in BrokerTopics :
          (PublishStep(topic) /\ im_running)
          => \A k \in 1..Len(im_calls) :
               ( /\ im_calls[k].op = "subscribe" /\ im_calls[k].topic = topic
                 /\ ~im_calls[k].was_running )
               => \E e \in 1..Len(invocations') :
                    /\ invocations'[e].depth = 0
                    /\ invocations'[e].index = SubscriptionIndex(topic, k)
                    /\ invocations'[e].callback = im_calls[k].callback]_vars

\* A handler was subscribed before start(); a publish before start() reached
\* no handler, start() followed, and the publish after it reached the handler.
C28_Witness ==
  \E a, b, c, d \in 1..Len(im_calls) :
    /\ a < b /\ b < c /\ c < d /\ d = Len(im_calls)
    /\ im_calls[a].op = "subscribe" /\ ~im_calls[a].was_running
    /\ im_calls[b].op = "publish" /\ ~im_calls[b].was_running
    /\ im_calls[b].topic = im_calls[a].topic
    /\ im_calls[c].op = "start" /\ ~im_calls[c].was_running
    /\ im_calls[d].op = "publish" /\ im_calls[d].topic = im_calls[a].topic
    /\ \E e \in 1..Len(invocations) :
         invocations[e].depth = 0 /\ invocations[e].callback = im_calls[a].callback

\* ------------------------------------------------------------------ C29
\* C29: an exception raised by a handler reaches neither the caller of the
\* in-process broker's publish() nor the MQTT client's network loop, and the
\* other handlers of the topic are still invoked: every subscription of the
\* topic has its invocation, those after a raising handler included.
C29_HandlerIsolation ==
  [][/\ \A topic \in BrokerTopics :
          (PublishStep(topic) /\ im_running)
          => /\ LastCall.outcome = "returned"
             /\ \A i \in 1..Len(SubscriptionsBefore(topic)) :
                  \E e \in 1..Len(invocations') :
                    /\ invocations'[e].depth = 0 /\ invocations'[e].index = i
                    /\ ~invocations'[e].escaped
     /\ \A topic \in BrokerTopics :
          OnMessage(topic, TRUE)
          => \A i \in 1..Len(callbacks[topic]) :
               \E e \in 1..Len(invocations') :
                 /\ invocations'[e].index = i
                 /\ invocations'[e].callback = callbacks[topic][i]
                 /\ ~invocations'[e].escaped]_vars

\* A raising handler ran first and the handler subscribed after it ran too:
\* once in a publish() of the in-process broker that returned ...
C29_WitnessInMemory ==
  /\ Len(im_calls) > 0
  /\ im_calls[Len(im_calls)].op = "publish" /\ im_calls[Len(im_calls)].outcome = "returned"
  /\ Len(invocations) >= 2
  /\ invocations[1].raised /\ invocations[1].depth = 0
  /\ invocations[2].depth = 0 /\ invocations[2].index = 2

\* ... and once in an _on_message of the MQTT broker.
C29_WitnessMqtt ==
  /\ loop_running /\ mqtt_running
  /\ Len(invocations) = 2
  /\ invocations[1].raised /\ ~invocations[2].raised

\* Either of the two (a process has one broker).
C29_Witness == C29_WitnessInMemory \/ C29_WitnessMqtt

\* ------------------------------------------------------------------ C30
\* C30: whenever the MQTT broker is running and connected, every topic with a
\* handler is subscribed at the client: start() subscribes every known topic,
\* subscribe() of a new topic on a running broker with a connection subscribes
\* it at once, and every successful connect subscribes every known topic
\* again.  An unexpected disconnect of a running broker is followed by one
\* reconnect attempt, and after stop() no reconnect is attempted.
C30_MqttSubscriptionComplete ==
  /\ []((mqtt_running /\ connection = "connected") => DOMAIN callbacks \subseteq subscribed)
  /\ [][/\ MqttStart => DOMAIN callbacks \subseteq subscribed'
        /\ \A topic \in BrokerTopics, callback \in MqttHandlers :
             ( /\ MqttSubscribe(topic, callback)
               /\ topic \notin DOMAIN callbacks
               /\ mqtt_running /\ connection \in {"connecting", "connected"} )
             => topic \in subscribed'
        /\ OnConnect(0) => DOMAIN callbacks \subseteq subscribed'
        /\ \A reconnected \in BOOLEAN :
             (OnDisconnect(reconnected) /\ mqtt_running) => reconnects' = reconnects + 1
        /\ (~mqtt_running /\ ~loop_running) => reconnects' = reconnects]_vars

\* The running broker lost its connection, reconnected, and both topics are
\* subscribed again on the new connection.
C30_Witness ==
  /\ reconnects >= 1
  /\ DOMAIN callbacks = BrokerTopics
  /\ mqtt_running /\ connection = "connected" /\ subscribed = BrokerTopics

\* ------------------------------------------------------------------ C31
\* The *_COMPLETE messages that end a successful handling by the Transcriber
\* or the AdDetector (not the short-circuit replies).
SuccessCompletes(history) ==
  {p \in history :
     /\ \/ p.by = "transcriber" /\ p.msg.topic = TRANSCRIBE_COMPLETE
        \/ p.by = "ad_detector" /\ p.msg.topic = AD_DETECTION_COMPLETE
     /\ "already_processed" \notin DOMAIN p.msg.data}

WalkMarks(segments, A, k) ==
  \/ k \in A
  \/ \E indicator \in PromotionalIndicators : Contains(indicator, Lower(segments[k].text))
  \/ /\ k + 1 \in A /\ k + 1 <= Len(segments)
     /\ segments[k + 1].start - segments[k].end <= 5

\* The indices the walk started after i marks: the longest run from i + 1 on
\* in which the walk marks every index.
Walked(segments, A, i) ==
  {j \in (i + 1)..Len(segments) : \A k \in (i + 1)..j : WalkMarks(segments, A, k)}

\* The ads after the segments up to i have been visited in order.
RECURSIVE ReferenceAds(_, _)
ReferenceAds(segments, i) ==
  IF i = 0 THEN {k \in 1..Len(segments) : segments[k].is_ad}
  ELSE LET A == ReferenceAds(segments, i - 1)
       IN IF i \notin A /\ (\E phrase \in TransitionPhrases : Contains(phrase, Lower(segments[i].text)))
          THEN A \cup {i} \cup Walked(segments, A, i)
          ELSE A

\* C32: for a segment sequence with at least one classifier-marked ad, the
\* segments marked after _merge_adjacent_ads are those of the reference walk,
\* and nothing but is_ad is changed; on the sequence of the test with ids
\* 147..158 they are 148, 149 and 154..157.
C32_CoalescingIsTheWalk ==
  (call.fn = "_merge_adjacent_ads" /\ \E k \in 1..Len(call.args) : call.args[k].is_ad)
  => /\ Len(call.result) = Len(call.args)
     /\ {k \in 1..Len(call.result) : call.result[k].is_ad} = ReferenceAds(call.args, Len(call.args))
     /\ \A k \in 1..Len(call.args) : [call.result[k] EXCEPT !.is_ad = FALSE] = [call.args[k] EXCEPT !.is_ad = FALSE]
     /\ call.args = TestSegments
        => {call.result[k].id : k \in {k \in 1..Len(call.result) : call.result[k].is_ad}}
           = {148, 149, 154, 155, 156, 157}

\* The call on the sequence of the test has returned ...
C32_WitnessTest ==
  /\ call.fn = "_merge_adjacent_ads" /\ call.args = TestSegments
  /\ call.result[2].is_ad /\ call.result[3].is_ad /\ ~call.result[4].is_ad

\* ... or a call in which the walk went over a segment kept for the ad that
\* follows it within five seconds.
C32_WitnessWalk ==
  /\ call.fn = "_merge_adjacent_ads"
  /\ Len(call.args) = 3
  /\ ~call.args[1].is_ad /\ ~call.args[2].is_ad /\ call.args[3].is_ad
  /\ call.args[1].text = <<"Bleiben", "Sie", "dran">> /\ call.args[2].text = <<"Hallo">>
  /\ call.result[1].is_ad /\ call.result[2].is_ad

\* Either of the two (a behaviour makes one call).
C32_Witness == C32_WitnessTest \/ C32_WitnessWalk

\* ------------------------------------------------------------------ C33
\* The blocks one after the other.
RECURSIVE Flatten(_)
Flatten(blocks) == IF blocks = <<>> THEN <<>> ELSE Head(blocks) \o Flatten(Tail(blocks))

\* The position of a segment of the lists the function is called with is its id.
Adjacent(a, b) == b.id = a.id + 1

\* C33: the blocks of _get_ad_blocks hold the ad-marked segments of the
\* sequence, each once and in order, and nothing else; no block is empty; the
\* segments of a block follow one another in the sequence with at most 5
\* seconds from the end of one to the start of the next; and where a block
\* ends and the next begins there is a non-ad segment between them or more
\* than 5 seconds.
C33_AdBlocks ==
  call.fn = "_get_ad_blocks"
  => LET blocks == call.result
     IN /\ Flatten(blocks) = SelectSeq(call.args, LAMBDA seg : seg.is_ad)
        /\ \A b \in 1..Len(blocks) :
             /\ Len(blocks[b]) >= 1
             /\ \A k \in 1..(Len(blocks[b]) - 1) :
                  /\ Adjacent(blocks[b][k], blocks[b][k + 1])
                  /\ blocks[b][k + 1].start - blocks[b][k].end <= 5
        /\ \A b \in 1..(Len(blocks) - 1) :
             LET last == blocks[b][Len(blocks[b])]
                 first == blocks[b + 1][1]
             IN ~Adjacent(last, first) \/ first.start - last.end > 5

\* Three ads in a row came out as a block of two and a block of one, split
\* where the pause is six seconds.
C33_Witness ==
  /\ call.fn = "_get_ad_blocks"
  /\ Len(call.args) = 3 /\ \A k \in 1..3 : call.args[k].is_ad
  /\ Len(call.result) = 2
  /\ Len(call.result[1]) = 2 /\ Len(call.result[2]) = 1

\* ------------------------------------------------------------------ C34
\* C34: with max_attempts of at least 1, _process_chunk sends at most
\* max_attempts requests to the classifier and makes at most max_attempts
\* attempts; every turn of its loop returns or counts one more failed
\* attempt, and nothing happens after the attempt that succeeded, so it
\* terminates; when it has returned, the error of its ProcessingResult is
\* unset exactly when an attempt succeeded, and is the error of the last
\* attempt exactly when max_attempts attempts failed.
C34_RetryBound ==
  /\ [](call.fn = "_process_chunk" /\ call.max_attempts >= 1
          => /\ call.requests <= call.max_attempts
             /\ Len(call.failures) <= call.max_attempts
             /\ (call.succeeded => call.returned)
             /\ (~call.returned => Len(call.failures) < call.max_attempts)
             /\ (call.returned
                   => /\ (call.result.error = None <=> call.succeeded)
                      /\ (call.result.error # None
                            <=> /\ Len(call.failures) = call.max_attempts
                                /\ call.result.error = call.failures[Len(call.failures)])
                      /\ (call.succeeded <=> Len(call.failures) < call.max_attempts)))
  /\ [][call.fn = "_process_chunk" /\ call.max_attempts >= 1
          => /\ ~call.returned
             /\ call'.returned \/ Len(call'.failures) = Len(call.failures) + 1]_vars

\* The statement for every max_attempts: a result without error only after
\* an attempt that succeeded.
C34_Original ==
  call.fn = "_process_chunk" /\ call.returned
  => (call.result.error = None <=> call.succeeded)

\* The third attempt succeeded after two that failed, with three requests sent.
C34_WitnessSuccess ==
  /\ call.fn = "_process_chunk"
  /\ call.returned /\ call.succeeded
  /\ call.max_attempts = MaxAttempts /\ Len(call.failures) = MaxAttempts - 1
  /\ call.requests = MaxAttempts
  /\ call.result.error = None

\* All three attempts failed and the result carries the error of the last
\* one, which is not the error of the first.
C34_WitnessExhausted ==
  /\ call.fn = "_process_chunk"
  /\ call.returned /\ ~call.succeeded
  /\ call.max_attempts = MaxAttempts /\ Len(call.failures) = MaxAttempts
  /\ call.failures[1] # call.failures[MaxAttempts]
  /\ call.result.error = call.failures[MaxAttempts]

C34_Witness == C34_WitnessSuccess \/ C34_WitnessExhausted

\* ------------------------------------------------------------------ C35
\* C35: when _process_chunk returns after every attempt failed, the segments
\* of its ProcessingResult have the is_ad values they had when it was called.
C35_ExhaustionLeavesSegments ==
  call.fn = "_process_chunk" /\ call.returned /\ ~call.succeeded
  => call.result.segments = call.args.segments

\* ------------------------------------------------------------------ C36
\* The worker has published its _COMPLETE for the key after working on it
\* (not the short-circuit reply).
HasSucceeded(worker, topic, field, key) ==
  \E p \in published :
    /\ p.by = worker /\ p.msg.topic = topic
    /\ Get(p.msg.data, field) = key
    /\ "already_processed" \notin DOMAIN p.msg.data

\* A handler passes the duplicate tests and starts to work on the key.
Begins(handling, handling_after, key) ==
  /\ key \in DOMAIN handling_after
  /\ key \notin DOMAIN handling \/ handling_after[key] # handling[key]

\* C36: at one Downloader, Transcriber or AdDetector a handler starts to
\* work on a key only while no other handler of that worker is working on
\* the key and no earlier one has succeeded for it; every key being worked
\* on is in files_in_process; and after the worker has succeeded for a key,
\* its heavy operation (HTTP GET, recognition, classification) does not run
\* for that key again.
C36_AtMostOnce ==
  /\ [](/\ DOMAIN dl_handling \subseteq dl_files_in_process
         /\ DOMAIN tr_handling \subseteq tr_files_in_process
         /\ DOMAIN ad_handling \subseteq ad_files_in_process)
  /\ [][/\ \A url \in DOMAIN dl_handling' :
             Begins(dl_handling, dl_handling', url)
             => /\ url \notin DOMAIN dl_handling
                /\ ~HasSucceeded("downloader", DOWNLOAD_COMPLETE, "url", url)
         /\ \A file_path \in DOMAIN tr_handling' :
             Begins(tr_handling, tr_handling', file_path)
             => /\ file_path \notin DOMAIN tr_handling
                /\ ~HasSucceeded("transcriber", TRANSCRIBE_COMPLETE, "file_path", file_path)
         /\ \A path \in DOMAIN ad_handling' :
             Begins(ad_handling, ad_handling', path)
             => /\ path \notin DOMAIN ad_handling
                /\ ~HasSucceeded("ad_detector", AD_DETECTION_COMPLETE, "file_path", path)
         /\ \A k \in DOMAIN heavy' :
             \/ k \in DOMAIN heavy /\ heavy'[k] = heavy[k]
             \/ /\ k[1] = "http_get" => ~HasSucceeded("downloader", DOWNLOAD_COMPLETE, "url", k[2])
                /\ k[1] = "recognize" => ~HasSucceeded("transcriber", TRANSCRIBE_COMPLETE, "file_path", k[2])
                /\ k[1] = "classify" => ~HasSucceeded("ad_detector", AD_DETECTION_COMPLETE, "file_path", k[2])]_vars

\* Two requests for one URL met at the Downloader: the second was refused
\* while the first was being downloaded, the first succeeded, and the HTTP GET
\* ran once.
C36_Witness ==
  \E p \in published :
    /\ p.by = "downloader" /\ p.msg.topic = DOWNLOAD_FAILED
    /\ Get(p.msg.data, "error") = "File is already being downloaded"
    /\ HasSucceeded("downloader", DOWNLOAD_COMPLETE, "url", Get(p.msg.data, "url"))
    /\ Count("http_get", Get(p.msg.data, "url")) = 1

\* ------------------------------------------------------------------ C37
\* C37: whenever the lock of a worker is free, no key is both in its
\* files_in_process and in its processed_files.  The lock blocks of the
\* Transcriber and the AdDetector are single steps, so their locks are free
\* in every state.
C37_DedupSetsDisjoint ==
  /\ file_lock = {} => dl_files_in_process \cap dl_processed_files = {}
  /\ tr_files_in_process \cap tr_processed_files = {}
  /\ ad_files_in_process \cap ad_processed_files = {}

\* ------------------------------------------------------------------ C38
\* C38: a request whose status is "completed" keeps that status in every
\* later step, whatever message with its correlation id is handled; and a
\* completed request has an audio_processing step whose download_url names a
\* file id of file_mappings.
C38_CompletedIsStable ==
  /\ [](\A r \in DOMAIN pending_requests :
          pending_requests[r].status = "completed"
          => \E i \in 1..Len(pending_requests[r].steps) :
               /\ pending_requests[r].steps[i].name = "audio_processing"
               /\ "download_url" \in DOMAIN pending_requests[r].steps[i]
               /\ \E file_id \in DOMAIN file_mappings :
                    pending_requests[r].steps[i].download_url = DownloadUrl(file_id))
  /\ [][\A r \in DOMAIN pending_requests :
          pending_requests[r].status = "completed" => pending_requests'[r].status = "completed"]_vars

\* ------------------------------------------------------------------ C39
\* The message belongs to a flow that a GET /process started.
StartedByProcess(m) ==
  \E p \in published : p.cause.topic = HTTP_PROCESS /\ p.msg.correlation_id = m.correlation_id

\* C39: the step of GET /process that publishes the DOWNLOAD_REQUEST of a new
\* request id leaves that id in pending_requests with status "processing"
\* and the single step submitted/completed, and no message carried the id
\* before; a front-end handler that takes a _COMPLETE or _FAILED of such a
\* flow finds the id in pending_requests; and no step removes an entry of
\* pending_requests or changes its steps other than by appending.
C39_RequestStatePrecedes ==
  [][/\ \A p \in NewlyPublished :
          p.cause.topic = HTTP_PROCESS
          => /\ p.msg.topic = DOWNLOAD_REQUEST
             /\ p.msg.correlation_id \notin DOMAIN pending_requests
             /\ \A q \in published : q.msg.correlation_id # p.msg.correlation_id
             /\ p.msg.correlation_id \in DOMAIN pending_requests'
             /\ pending_requests'[p.msg.correlation_id].status = "processing"
             /\ pending_requests'[p.msg.correlation_id].steps
                  = <<[name |-> "submitted", status |-> "completed"]>>
     /\ \A m \in bus : \A topic \in CompleteTopics \cup FailedTopics :
          Handled(m, topic) /\ StartedByProcess(m)
          => m.correlation_id \in DOMAIN pending_requests
     /\ \A r \in DOMAIN pending_requests :
          /\ r \in DOMAIN pending_requests'
          /\ IsPrefix(pending_requests[r].steps, pending_requests'[r].steps)]_vars

\* The front-end has handled the DOWNLOAD_COMPLETE and the TRANSCRIBE_FAILED
\* of a request that GET /process submitted: its steps grew from one to three.
C39_Witness ==
  \E r \in DOMAIN pending_requests :
    /\ \E p \in published : p.cause.topic = HTTP_PROCESS /\ p.msg.correlation_id = r
    /\ Len(pending_requests[r].steps) = 3
    /\ pending_requests[r].steps[1].name = "submitted"
    /\ pending_requests[r].steps[2].name = "download"
    /\ pending_requests[r].steps[3].name = "transcription"
    /\ pending_requests[r].status = "failed"

\* ------------------------------------------------------------------ C40
\* C40: a step in which a worker that is not running (never started, or
\* stopped) takes a request of its topic publishes nothing and leaves the
\* processed_files and files_in_process of the workers, their files on disk,
\* the store, the heavy-operation counts and pending_requests as they are.
C40_NotRunningDrops ==
  [][\A m \in bus : \A w \in Workers :
       Handled(m, RequestTopic(w)) /\ ~running[w]
       => /\ NewlyPublished = {}
          /\ UNCHANGED <<dl_vars, tr_vars, ad_vars, store, heavy, pending_requests>>]_vars

\* A Downloader that was never started has taken the DOWNLOAD_REQUEST of a
\* request: nothing answers it and the request is still "processing".
C40_Witness ==
  \E p \in published :
    /\ p.msg.topic = DOWNLOAD_REQUEST /\ p.by = "web"
    /\ p.msg \notin bus
    /\ ~running["downloader"] /\ stops = 0 /\ redelivered = 0
    /\ \A q \in published : q.cause # p.msg
    /\ dl_files_in_process = {} /\ dl_processed_files = {} /\ heavy = EmptyMap
    /\ p.msg.correlation_id \in DOMAIN pending_requests
    /\ pending_requests[p.msg.correlation_id].status = "processing"

====
